---- MODULE Spec2Model ----
(***************************************************************************)
(* Verification model of the BRVM scraper service                          *)
(* (evandjefie/leyinvest-python-scrapper-): the bulletin date resolver,    *)
(* the webhook dispatcher, the task scheduler, the indicator extractor and *)
(* the quote scraper.  Each component has its own specification over the   *)
(* shared variables; the variables of the other components stay in their   *)
(* quiet state.                                                            *)
(***************************************************************************)
EXTENDS Integers, Sequences, FiniteSets, TLC

VARIABLES
    \* ---- PDFExtractor.get_pdf_date ----
    date_pc,         \* "input" | "done"
    reference_day,   \* reference_date.date(), a proleptic Gregorian ordinal
    reference_secs,  \* reference_date.time(), seconds since midnight
    pdf_date,        \* value returned by get_pdf_date (0 before the first call)
    \* ---- WebhookManager.broadcast_to_webhooks / send_webhook ----
    webhooks,        \* table webhook_subscriptions: id -> [is_active, last_triggered, url]
    wh_pc,           \* "idle" | "loop" | "post" | "sent" | "returned" | "raised"
    wh_list,         \* the list returned by get_active_webhooks
    wh_idx,          \* position of the for loop in wh_list (1-based)
    wh_attempt,      \* send_webhook: attempt
    wh_outcomes,     \* outcomes of the POSTs made by the current send_webhook call
    wh_stats,        \* stats = [success, failed]
    wh_calls,        \* id -> number of send_webhook calls in this broadcast
    wh_result,       \* id -> "none" | "true" | "false": what send_webhook returned
    wh_before,       \* the table as it was when the broadcast started
    wh_now,          \* the clock (datetime.now()), in seconds
    wh_failed_at,    \* time at which the latest failed POST ended
    wh_sess,         \* the SQLAlchemy session: "active" | "invalid"
    wh_expired,      \* ids whose ORM object is expired (reloaded on next access)
    wh_store_fault,  \* the store raised an error during this broadcast
    wh_escaped,      \* the exception that left broadcast_to_webhooks, or "none"
    wh_round,        \* number of broadcasts started
    \* ---- TaskScheduler ----
    sched_running,   \* scheduler.running
    job_due,         \* job id -> the job's next_run_time has been reached
    job_instances,   \* job id -> running instances the executor counts
    run_pc,          \* job id -> "idle" | "running" | "finished"
    run_exc,         \* job id -> exception raised inside the cycle, or "none"
    run_result,      \* job id -> "none" | "returned" | "raised": the callback
    run_caught,      \* job id -> an earlier cycle of the job raised and was caught
    \* ---- PDFExtractor.process_daily_pdf ----
    indicateurs,     \* table indicateurs_marche: a set of rows
    ex_next_id,      \* next autoincrement id of the table
    ex_files,        \* downloads directory: date -> "none" | "partial" | document
    ex_today,        \* datetime.now().date()
    ex_secs,         \* datetime.now().time(), seconds since midnight
    ex_pc,           \* caller -> "idle" | "extract" | "persist" | "commit" | "cleanup" | "returned"
    ex_target,       \* caller -> target_date
    ex_ind,          \* caller -> indicators returned by extract_indicators
    ex_existing,     \* caller -> id of the row save_to_database found, 0 if none
    ex_success,      \* caller -> value process_daily_pdf returns
    ex_before,       \* caller -> the table when save_to_database was entered
    ex_start,        \* caller -> the table when the cycle started
    ex_trace,        \* caller -> the steps the cycle has taken, in order
    ex_pre_cleanup,  \* caller -> the table when cleanup_old_data was entered
    ex_deleted,      \* caller -> value cleanup_old_data returned
    ex_notified,     \* what extract_pdf_task did after its last cycle: "none" | "no_data" | "read_raised" | "no_report" | "notified"
    \* ---- BRVMScraper.scrape_and_save ----
    actions,             \* table actions: a set of rows
    historique_actions,  \* table historique_actions: a set of rows
    sc_next_id,          \* next autoincrement id of actions
    sc_hist_id,          \* next autoincrement id of historique_actions
    sc_cycles,           \* number of scrape cycles started
    sc_pc,               \* caller -> "idle" | "save" | "commit" | "returned" | "raised"
    sc_page,             \* caller -> rows of the page fetched
    sc_data,             \* caller -> actions_data returned by parse_actions
    sc_idx,              \* caller -> position of the loop of save_to_database
    sc_stats,            \* caller -> stats
    sc_pending,          \* caller -> unflushed changes of the caller's session
    sc_before,           \* caller -> both tables when the cycle started
    sc_fault,            \* caller -> a store operation raised during the cycle
    sc_notified,         \* scrape_brvm_task called notify_actions_update in its last cycle
    \* ---- parse_float / parse_int of parse_actions ----
    pa_value,        \* the cell text handed to the parsers
    pa_float,        \* value returned by parse_float(pa_value)
    pa_int,          \* value returned by parse_int(pa_value)
    pa_done          \* the parsers that have been applied to pa_value

dateVars == <<date_pc, reference_day, reference_secs, pdf_date>>

webhookVars == <<webhooks, wh_pc, wh_list, wh_idx, wh_attempt, wh_outcomes,
                 wh_stats, wh_calls, wh_result, wh_before, wh_now, wh_failed_at,
                 wh_sess, wh_expired, wh_store_fault, wh_escaped, wh_round>>

schedVars == <<sched_running, job_due, job_instances, run_pc, run_exc,
               run_result, run_caught>>

extractVars == <<indicateurs, ex_next_id, ex_files, ex_today, ex_secs,
                 ex_pc, ex_target, ex_ind, ex_existing, ex_success, ex_before,
                 ex_start, ex_trace, ex_pre_cleanup, ex_deleted,
                 ex_notified>>

scrapeVars == <<actions, historique_actions, sc_next_id, sc_hist_id, sc_cycles, sc_pc,
                sc_page, sc_data, sc_idx, sc_stats, sc_pending, sc_before, sc_fault,
                sc_notified>>

parseVars == <<pa_value, pa_float, pa_int, pa_done>>

vars == <<dateVars, webhookVars, schedVars, extractVars, scrapeVars, parseVars>>

notDateVars == <<webhookVars, schedVars, extractVars, scrapeVars, parseVars>>
notWebhookVars == <<dateVars, schedVars, extractVars, scrapeVars, parseVars>>
notSchedVars == <<dateVars, webhookVars, extractVars, scrapeVars, parseVars>>
notExtractVars == <<dateVars, webhookVars, schedVars, scrapeVars, parseVars>>
notScrapeVars == <<dateVars, webhookVars, schedVars, extractVars, parseVars>>
notParseVars == <<dateVars, webhookVars, schedVars, extractVars, scrapeVars>>

(***************************************************************************)
(* PDFExtractor.get_pdf_date  (src/app/services/pdf_extractor.py:33-67)    *)
(***************************************************************************)

\* First day of the modelled calendar window: 2024-01-01, a Monday
\* (date(2024, 1, 1).toordinal()).
FirstDay == 738886

\* Number of days after FirstDay that a reference instant may fall on.
MaxDayOffset == 20

\* cutoff_time = time(17, 30, 0), in seconds since midnight.
CUTOFF_SECS == 63000

\* Times of day the reference instant is drawn from: midnight, the two
\* scheduled extraction hours (12:00 and 18:00), the second before the cutoff,
\* the cutoff itself, the second after it, and the last second of the day
\* (23:59:59).
RefTimes == {0, 43200, CUTOFF_SECS - 1, CUTOFF_SECS, CUTOFF_SECS + 1, 64800, 86399}

RefDays == FirstDay .. (FirstDay + MaxDayOffset)

\* date.weekday(): Monday = 0 ... Sunday = 6.
Weekday(d) == (d + 6) % 7

\* current_time < cutoff_time
BeforeCutoffLe(secs) == secs <= CUTOFF_SECS
BeforeCutoff(secs) == secs < CUTOFF_SECS

\* Step 1: the candidate date according to the time of day.
candidate_date(day, secs) == IF BeforeCutoff(secs) THEN day - 1 ELSE day

\* Step 2: while candidate_date.weekday() >= 5: candidate_date -= 1 day.
IsWeekendSundayOnly(d) == Weekday(d) > 5
IsWeekend(d) == Weekday(d) >= 5

RECURSIVE RollBack(_)
RollBack(d) == IF IsWeekend(d) THEN RollBack(d - 1) ELSE d

get_pdf_date(day, secs) == RollBack(candidate_date(day, secs))

DateInit ==
    /\ date_pc = "input"
    /\ reference_day \in RefDays
    /\ reference_secs \in RefTimes
    /\ pdf_date = 0

\* A caller evaluates get_pdf_date on the current reference instant.
GetPdfDate ==
    /\ date_pc = "input"
    /\ pdf_date' = get_pdf_date(reference_day, reference_secs)
    /\ date_pc' = "done"
    /\ UNCHANGED <<reference_day, reference_secs>>

\* The next call comes with another reference instant.
NextReference ==
    /\ date_pc = "done"
    /\ reference_day' \in RefDays
    /\ reference_secs' \in RefTimes
    /\ date_pc' = "input"
    /\ UNCHANGED pdf_date

DateNext ==
    \/ GetPdfDate /\ UNCHANGED notDateVars
    \/ NextReference /\ UNCHANGED notDateVars

\* The resolver at rest, for the specifications of the other components.
DateQuiet ==
    /\ date_pc = "input"
    /\ reference_day = FirstDay
    /\ reference_secs = 0
    /\ pdf_date = 0

(***************************************************************************)
(* WebhookManager  (src/app/services/webhook_manager.py)                   *)
(***************************************************************************)

\* Number of rows of webhook_subscriptions.
NSubs == 3

\* Number of broadcasts a behaviour runs through.
MaxBroadcasts == 1

\* settings.WEBHOOK_MAX_RETRIES
WEBHOOK_MAX_RETRIES == 3

SubIds == 1..NSubs

\* What one requests.post + raise_for_status can do: succeed, raise
\* requests.Timeout, or raise another requests.RequestException (HTTPError
\* from raise_for_status stands for them).
PostOutcomes == {"ok", "Timeout", "HTTPError"}

\* The subclasses of requests.RequestException among them.
RequestExceptions == {"Timeout", "HTTPError"}

\* What db.commit() can do on a usable session: succeed, fail while flushing
\* the UPDATE (the session rolls back, expires every object and stays invalid
\* until rollback() is called), or fail at COMMIT (the session stays invalid,
\* the objects keep their loaded state).
CommitOutcomes == {"ok", "flush_error", "commit_error"}

\* The SELECT of get_active_webhooks: it succeeds or raises.
QueryOutcomes == {"ok", "error"}

\* The ids of a set, as the list the query returns (primary-key order).
RECURSIVE SortedSeq(_)
SortedSeq(S) ==
    IF S = {} THEN <<>>
    ELSE LET m == CHOOSE x \in S : \A y \in S : x <= y
         IN <<m>> \o SortedSeq(S \ {m})

\* db.query(WebhookSubscription).filter(is_active == 1).all(); [] when the
\* query raises.
AllWebhooks(table, q) ==
    IF q = "ok" THEN SortedSeq(SubIds) ELSE <<>>
get_active_webhooks(table, q) ==
    IF q = "ok" THEN SortedSeq({w \in SubIds : table[w].is_active = 1}) ELSE <<>>

\* The two except clauses of send_webhook: requests.Timeout, then
\* requests.RequestException.
CaughtTimeoutOnly(exc) == exc = "Timeout"
CaughtBySendWebhook(exc) == exc = "Timeout" \/ exc \in RequestExceptions

\* wait_time = 2 ** attempt
wait_time(attempt) == 2 ^ attempt

\* asyncio.sleep(wait_time) is called from the synchronous send_webhook and is
\* not awaited: the call builds a coroutine object that never runs, so no
\* time passes.
SleepElapsed(wait) == 0

\* if success: (line 125) guards both the success count and the timestamp.
IsSuccessAlways(result) == TRUE
IsSuccess(result) == result = "true"

Current == wh_list[wh_idx]

\* The table before the broadcasts: every subscriber was registered, then
\* possibly deactivated (is_active 0), and was either never notified
\* (last_triggered NULL, written 0) or notified at time 1.  The url column
\* is unique: subscriber w has the url numbered w.
WebhookInit ==
    /\ webhooks \in {t \in [SubIds -> [is_active : {0, 1}, last_triggered : {0, 1},
                                       url : SubIds]] :
                        \A w \in SubIds : t[w].url = w}
    /\ wh_pc = "idle"
    /\ wh_list = <<>>
    /\ wh_idx = 0
    /\ wh_attempt = 0
    /\ wh_outcomes = <<>>
    /\ wh_stats = [success |-> 0, failed |-> 0]
    /\ wh_calls = [w \in SubIds |-> 0]
    /\ wh_result = [w \in SubIds |-> "none"]
    /\ wh_before = webhooks
    /\ wh_now = 1
    /\ wh_failed_at = 0
    /\ wh_sess = "active"
    /\ wh_expired = {}
    /\ wh_store_fault = FALSE
    /\ wh_escaped = "none"
    /\ wh_round = 0

\* The dispatcher at rest, for the specifications of the other components.
WebhookQuiet ==
    /\ WebhookInit
    /\ webhooks = [w \in SubIds |-> [is_active |-> 1, last_triggered |-> 0, url |-> w]]

\* broadcast_to_webhooks, lines 110-120: the caller passes a fresh session;
\* list the active subscribers; return at once when there is none.  The
\* clock counts whole seconds: a broadcast starts at least one second after
\* everything that happened before it, and a POST is shorter than a second.
BroadcastStart(q) ==
    /\ wh_pc = "idle"
    /\ wh_round < MaxBroadcasts
    /\ wh_round' = wh_round + 1
    /\ wh_stats' = [success |-> 0, failed |-> 0]
    /\ wh_list' = get_active_webhooks(webhooks, q)
    /\ wh_idx' = 1
    /\ wh_attempt' = 0
    /\ wh_outcomes' = <<>>
    /\ wh_calls' = [w \in SubIds |-> 0]
    /\ wh_result' = [w \in SubIds |-> "none"]
    /\ wh_before' = webhooks
    /\ wh_failed_at' = 0
    /\ wh_sess' = IF q = "ok" THEN "active" ELSE "invalid"
    /\ wh_expired' = {}
    /\ wh_store_fault' = (q # "ok")
    /\ wh_escaped' = "none"
    /\ wh_pc' = IF wh_list' = <<>> THEN "returned" ELSE "loop"
    /\ wh_now' = wh_now + 1
    /\ UNCHANGED webhooks

\* for webhook in webhooks: self.send_webhook(webhook.url, ...)  (lines
\* 122-123) and the return after the loop (lines 136-137).  Reading
\* webhook.url of an expired object reloads it, which raises on an invalid
\* session.
LoopNext ==
    /\ wh_pc = "loop"
    /\ IF wh_idx > Len(wh_list)
       THEN /\ wh_pc' = "returned"
            /\ UNCHANGED <<wh_expired, wh_calls, wh_attempt, wh_outcomes, wh_escaped>>
       ELSE IF Current \in wh_expired /\ wh_sess = "invalid"
       THEN /\ wh_pc' = "raised"
            /\ wh_escaped' = "PendingRollbackError"
            /\ UNCHANGED <<wh_expired, wh_calls, wh_attempt, wh_outcomes>>
       ELSE /\ wh_expired' = wh_expired \ {Current}
            /\ wh_calls' = [wh_calls EXCEPT ![Current] = @ + 1]
            /\ wh_attempt' = 1
            /\ wh_outcomes' = <<>>
            /\ wh_pc' = "post"
            /\ UNCHANGED wh_escaped
    /\ UNCHANGED <<webhooks, wh_list, wh_idx, wh_stats, wh_result, wh_before,
                   wh_now, wh_failed_at, wh_sess, wh_store_fault, wh_round>>

\* send_webhook, one pass of "for attempt in range(1, max_retries + 1)"
\* (lines 65-95): POST, return True on success, return False when the last
\* attempt failed, otherwise "sleep" and go round again.
Post(outcome) ==
    /\ wh_pc = "post"
    /\ wh_outcomes' = Append(wh_outcomes, outcome)
    /\ IF outcome = "ok"
       THEN /\ wh_result' = [wh_result EXCEPT ![Current] = "true"]
            /\ wh_pc' = "sent"
            /\ UNCHANGED <<wh_attempt, wh_failed_at, wh_escaped, wh_now>>
       ELSE IF ~CaughtBySendWebhook(outcome)
       THEN /\ wh_pc' = "raised"
            /\ wh_escaped' = outcome
            /\ UNCHANGED <<wh_attempt, wh_failed_at, wh_result, wh_now>>
       ELSE IF wh_attempt = WEBHOOK_MAX_RETRIES
       THEN /\ wh_result' = [wh_result EXCEPT ![Current] = "false"]
            /\ wh_pc' = "sent"
            /\ UNCHANGED <<wh_attempt, wh_failed_at, wh_escaped, wh_now>>
       ELSE /\ wh_failed_at' = wh_now
            /\ wh_now' = wh_now + SleepElapsed(wait_time(wh_attempt))
            /\ wh_attempt' = wh_attempt + 1
            /\ UNCHANGED <<wh_pc, wh_result, wh_escaped>>
    /\ UNCHANGED <<webhooks, wh_list, wh_idx, wh_stats, wh_calls, wh_before,
                   wh_sess, wh_expired, wh_store_fault, wh_round>>

\* Lines 133-134: a failed delivery is counted and nothing of the subscriber
\* is written.
deactivate(table, w) == [table EXCEPT ![w].is_active = 0]
on_failed_delivery(table, w) == table

\* Lines 125-134: count the result; on success set last_triggered and commit,
\* logging (with webhook.id) and swallowing a commit error.
AfterSend(c) ==
    /\ wh_pc = "sent"
    /\ IF IsSuccess(wh_result[Current])
       THEN /\ wh_stats' = [wh_stats EXCEPT !.success = @ + 1]
            /\ IF wh_sess = "active" /\ c = "ok"
               THEN /\ webhooks' = [webhooks EXCEPT ![Current].last_triggered = wh_now]
                    /\ wh_expired' = SubIds
                    /\ wh_pc' = "loop"
                    /\ wh_idx' = wh_idx + 1
                    /\ UNCHANGED <<wh_sess, wh_store_fault, wh_escaped>>
               ELSE /\ wh_sess' = "invalid"
                    /\ wh_store_fault' = TRUE
                    /\ wh_expired' = IF wh_sess = "active" /\ c = "flush_error"
                                     THEN SubIds ELSE wh_expired
                    /\ IF Current \in wh_expired'
                       THEN /\ wh_pc' = "raised"
                            /\ wh_escaped' = "PendingRollbackError"
                            /\ UNCHANGED wh_idx
                       ELSE /\ wh_pc' = "loop"
                            /\ wh_idx' = wh_idx + 1
                            /\ UNCHANGED wh_escaped
                    /\ UNCHANGED webhooks
       ELSE /\ wh_stats' = [wh_stats EXCEPT !.failed = @ + 1]
            /\ webhooks' = on_failed_delivery(webhooks, Current)
            /\ wh_pc' = "loop"
            /\ wh_idx' = wh_idx + 1
            /\ UNCHANGED <<wh_sess, wh_expired, wh_store_fault, wh_escaped>>
    /\ UNCHANGED <<wh_list, wh_attempt, wh_outcomes, wh_calls, wh_result,
                   wh_before, wh_now, wh_failed_at, wh_round>>

\* The caller takes the result (or the exception) and closes its session;
\* the locals of the call are gone.
BroadcastEnd ==
    /\ wh_pc \in {"returned", "raised"}
    /\ wh_pc' = "idle"
    /\ wh_sess' = "active"
    /\ wh_expired' = {}
    /\ wh_list' = <<>>
    /\ wh_idx' = 0
    /\ wh_attempt' = 0
    /\ wh_outcomes' = <<>>
    /\ wh_stats' = [success |-> 0, failed |-> 0]
    /\ wh_calls' = [w \in SubIds |-> 0]
    /\ wh_result' = [w \in SubIds |-> "none"]
    /\ wh_before' = webhooks
    /\ wh_failed_at' = 0
    /\ wh_store_fault' = FALSE
    /\ wh_escaped' = "none"
    /\ UNCHANGED <<webhooks, wh_now, wh_round>>

WebhookNext ==
    \/ (\E q \in QueryOutcomes : BroadcastStart(q)) /\ UNCHANGED notWebhookVars
    \/ LoopNext /\ UNCHANGED notWebhookVars
    \/ (\E o \in PostOutcomes : Post(o)) /\ UNCHANGED notWebhookVars
    \/ (\E c \in CommitOutcomes : AfterSend(c)) /\ UNCHANGED notWebhookVars
    \/ BroadcastEnd /\ UNCHANGED notWebhookVars

(***************************************************************************)
(* TaskScheduler  (src/app/services/scheduler.py), with the callbacks'     *)
(* session context manager (src/app/database.py: get_db_context)           *)
(***************************************************************************)

\* max_instances=1 of every add_job call.
MAX_INSTANCES == 1

\* The jobs of setup_jobs: one interval job for the scrape, and one cron job
\* per hour of settings.PDF_DOWNLOAD_HOURS = [12, 18] for the extraction.
JobIds == {"scrape_brvm", "extract_pdf_12h", "extract_pdf_18h"}

\* The callback each job runs: scrape_brvm_task or extract_pdf_task.
TaskOf(j) == IF j = "scrape_brvm" THEN "scrape_brvm_task" ELSE "extract_pdf_task"

Tasks == {"scrape_brvm_task", "extract_pdf_task"}

\* What can be raised inside the with block of a callback: nothing, a
\* persistence error (save_to_database re-raising a failed commit, an invalid
\* session in the notification), an I/O error (writing the bulletin to disk)
\* or a programming error.  All are subclasses of Exception.
BodyExceptions == {"none", "SQLAlchemyError", "OSError", "KeyError"}

\* db.commit() of get_db_context when the block ends normally.
ContextCommits == {"ok", "SQLAlchemyError"}

\* get_db_context: yield; commit; except: rollback, raise; finally: close.
\* The exception that leaves the with statement, "none" if there is none.
get_db_context(bodyExc, commit) ==
    IF bodyExc # "none" THEN bodyExc
    ELSE IF commit # "ok" THEN commit
    ELSE "none"

\* "except Exception as e" of scrape_brvm_task and extract_pdf_task.
CaughtByRequestsOnly(exc) == exc \in {"RequestException"}
CaughtByTask(exc) == exc \in {"SQLAlchemyError", "OSError", "KeyError", "RequestException"}

\* The callback: try: with get_db_context() ... except Exception: log.
TaskCallback(bodyExc, commit) ==
    LET exc == get_db_context(bodyExc, commit) IN
    IF exc = "none" \/ CaughtByTask(exc) THEN "returned" ELSE "raised"

SchedInit ==
    /\ sched_running = TRUE
    /\ job_due = [j \in JobIds |-> FALSE]
    /\ job_instances = [j \in JobIds |-> 0]
    /\ run_pc = [j \in JobIds |-> "idle"]
    /\ run_exc = [j \in JobIds |-> "none"]
    /\ run_result = [j \in JobIds |-> "none"]
    /\ run_caught = [j \in JobIds |-> FALSE]

\* The scheduler at rest, for the specifications of the other components.
SchedQuiet == SchedInit

\* The job's trigger reaches its next run time (IntervalTrigger every 30
\* minutes, CronTrigger at 12:00 or 18:00).  coalesce=True: firings that pile
\* up while the job is due count as one.
TimerFire(j) ==
    /\ sched_running
    /\ ~job_due[j]
    /\ job_due' = [job_due EXCEPT ![j] = TRUE]
    /\ UNCHANGED <<sched_running, job_instances, run_pc, run_exc, run_result,
                   run_caught>>

\* execute_now(job_id): job.modify(next_run_time=datetime.now()).
ExecuteNow(j) ==
    /\ sched_running
    /\ ~job_due[j]
    /\ job_due' = [job_due EXCEPT ![j] = TRUE]
    /\ UNCHANGED <<sched_running, job_instances, run_pc, run_exc, run_result,
                   run_caught>>

\* The scheduler processes a due job: the executor starts the callback unless
\* the job already has max_instances running instances, in which case the run
\* is skipped.  The instance count is per job id.
MaySubmit(j) == job_instances[j] < MAX_INSTANCES

ProcessJob(j) ==
    /\ sched_running
    /\ job_due[j]
    /\ job_due' = [job_due EXCEPT ![j] = FALSE]
    /\ IF MaySubmit(j)
       THEN /\ job_instances' = [job_instances EXCEPT ![j] = @ + 1]
            /\ run_pc' = [run_pc EXCEPT ![j] = "running"]
       ELSE UNCHANGED <<job_instances, run_pc>>
    /\ UNCHANGED <<sched_running, run_exc, run_result, run_caught>>

\* The callback runs its cycle to the end of its try statement.
RunTask(j, bodyExc, commit) ==
    /\ run_pc[j] = "running"
    /\ run_pc' = [run_pc EXCEPT ![j] = "finished"]
    /\ run_exc' = [run_exc EXCEPT ![j] = get_db_context(bodyExc, commit)]
    /\ run_result' = [run_result EXCEPT ![j] = TaskCallback(bodyExc, commit)]
    /\ UNCHANGED <<sched_running, job_due, job_instances, run_caught>>

\* The executor takes the callback's outcome and releases the instance.
TaskDone(j) ==
    /\ run_pc[j] = "finished"
    /\ run_pc' = [run_pc EXCEPT ![j] = "idle"]
    /\ job_instances' = [job_instances EXCEPT ![j] = @ - 1]
    /\ run_caught' = [run_caught EXCEPT ![j] =
                         @ \/ (run_exc[j] # "none" /\ run_result[j] = "returned")]
    /\ run_exc' = [run_exc EXCEPT ![j] = "none"]
    /\ run_result' = [run_result EXCEPT ![j] = "none"]
    /\ UNCHANGED <<sched_running, job_due>>

SchedNext ==
    \/ (\E j \in JobIds : TimerFire(j)) /\ UNCHANGED notSchedVars
    \/ (\E j \in JobIds : ExecuteNow(j)) /\ UNCHANGED notSchedVars
    \/ (\E j \in JobIds : ProcessJob(j)) /\ UNCHANGED notSchedVars
    \/ (\E j \in JobIds, e \in BodyExceptions, c \in ContextCommits :
            RunTask(j, e, c)) /\ UNCHANGED notSchedVars
    \/ (\E j \in JobIds : TaskDone(j)) /\ UNCHANGED notSchedVars

(***************************************************************************)
(* PDFExtractor.process_daily_pdf  (src/app/services/pdf_extractor.py)     *)
(***************************************************************************)

\* Days after FirstDay the clock of the extraction cycles runs through.
MaxExDays == 0

\* settings.DATA_RETENTION_DAYS
DATA_RETENTION_DAYS == 60

\* settings.PDF_DOWNLOAD_HOURS = [12, 18], as seconds since midnight: the
\* times of day at which cycles run.
PDF_DOWNLOAD_SECS == {43200, 64800}

\* The callers of process_daily_pdf: extract_pdf_task (target_date None) and
\* the route extract_pdf_now.
ExtractProcs == {"scheduled", "manual"}

\* The four keys of the indicators dictionary.
IndicatorKeys == {"taux_rendement_moyen", "per_moyen", "taux_rentabilite_moyen",
                  "prime_risque_marche"}

\* The text of a bulletin, by what the four patterns find in it: nothing,
\* two of the four labels, or all four.
Documents == {"no_label", "two_labels", "four_labels"}

\* The values an indicator's pattern matches in the text of a file, in text
\* order (each is digits, a comma or point, digits, which float() accepts
\* once the comma is replaced).  An unreadable file ("partial") gives no
\* text: pdfplumber raises inside the try.
Matches(file, k) ==
    CASE file = "two_labels" ->
             IF k = "taux_rendement_moyen" THEN <<"1.5", "9.9">>
             ELSE IF k = "per_moyen" THEN <<"1.5">>
             ELSE <<>>
      [] file = "four_labels" -> <<"2.5">>
      [] OTHER -> <<>>

\* re.search: the leftmost match.
LastMatch(ms) == ms[Len(ms)]
FirstMatch(ms) == Head(ms)

\* extract_indicators: every key starts at None (lines 160-165) and takes
\* the value of its pattern's first match, if any (lines 192-201).
extract_indicators(file) ==
    [k \in IndicatorKeys |->
        IF Matches(file, k) = <<>> THEN "None" ELSE FirstMatch(Matches(file, k))]

\* generate_pdf_url: the URL of the bulletin of a date.
generate_pdf_url(d) == <<"boc", d>>

\* What requests.get + streaming to disk can do in download_pdf: a complete
\* download of the published document, a 404, another error status or a
\* network failure before the file is opened, or a connection that breaks
\* after the file was opened for writing.
DownloadOutcomes == Documents \cup {"404", "error", "broken_stream"}

\* The file under the bulletin's name after download_pdf, and whether
\* download_pdf returned a path.
\* What download_pdf leaves under the bulletin's file name: the document, a
\* partial file when the stream broke after open(filepath, 'wb') (lines
\* 135-137, nothing removes it), or nothing.
FileRemovedOnFailure(o) == IF o \in Documents THEN o ELSE "none"
FileAfterDownload(o) ==
    IF o \in Documents THEN o
    ELSE IF o = "broken_stream" THEN "partial"
    ELSE "none"

\* download_pdf's return value: the path of the file, or None after a 404
\* (line 131) and after a RequestException (line 144).
download_pdf(o) == IF o \in Documents THEN "filepath" ELSE "None"

\* process_daily_pdf, line 330: if not downloaded_path
Downloaded(o) == download_pdf(o) # "None"

\* all(v is None for v in indicators.values())
NoKeyLeft(ind) == DOMAIN ind = {}
AllNone(ind) == \A k \in IndicatorKeys : ind[k] = "None"

RowsFor(table, d) == {r \in table : r.date_rapport = d}

\* save_to_database, first half: .filter(date_rapport == target_date).first()
FirstRowId(table, d) ==
    IF RowsFor(table, d) = {} THEN 0
    ELSE CHOOSE i \in {r.id : r \in RowsFor(table, d)} :
             \A r \in RowsFor(table, d) : i <= r.id

NewRow(id, d, ind) ==
    [id |-> id, date_rapport |-> d, ind |-> ind, source_pdf |-> generate_pdf_url(d)]

\* save_to_database, second half: the table after the UPDATE of the row found
\* or the INSERT of a new row, once committed.
AlwaysInsert(table, existing, id, d, ind) == table \cup {NewRow(id, d, ind)}
Upsert(table, existing, id, d, ind) ==
    IF existing # 0
    THEN {IF r.id = existing
          THEN [r EXCEPT !.ind = ind, !.source_pdf = generate_pdf_url(d)]
          ELSE r : r \in table}
    ELSE table \cup {NewRow(id, d, ind)}

\* Without the unique constraint only the store's own failures remain.
CommitRaisesNoUnique(table, existing, d, outcome) == outcome # "ok"

\* The commit of save_to_database raises when the store does (outcome
\* "error"), when an INSERT meets a row of the same date (date_rapport is
\* unique) and when the row to UPDATE is gone.
CommitRaises(table, existing, d, outcome) ==
    \/ outcome # "ok"
    \/ existing = 0 /\ RowsFor(table, d) # {}
    \/ existing # 0 /\ ~\E r \in table : r.id = existing

\* cleanup_old_data: cutoff_date = today - retention_days; delete the rows
\* with date_rapport < cutoff_date.
cutoff_date(today) == today - DATA_RETENTION_DAYS

cleanup_through_cutoff(table, today) == {r \in table : ~(r.date_rapport <= cutoff_date(today))}
cleanup_old_data(table, today) == {r \in table : ~(r.date_rapport < cutoff_date(today))}

StoreOutcomes == {"ok", "error"}

\* The dates a cycle can target: what get_pdf_date gives for the reference
\* instants of the clock.
\* A target_date the route can be given that lies far behind the retention
\* window.
OldReferenceDay == FirstDay - DATA_RETENTION_DAYS - 10

TargetDates ==
    {get_pdf_date(d, t) : d \in (FirstDay - 1)..(FirstDay + MaxExDays),
                          t \in PDF_DOWNLOAD_SECS}
        \cup {get_pdf_date(OldReferenceDay, 43200)}

\* Rows the table may hold before the first cycle: two old reports, dated one
\* day before and exactly on the first cutoff date, and a report for the
\* first date targeted, written from another document and source.
InitialRows ==
    {[id |-> 1, date_rapport |-> FirstDay - DATA_RETENTION_DAYS - 1,
      ind |-> extract_indicators("four_labels"), source_pdf |-> <<"boc", 0>>],
     [id |-> 2, date_rapport |-> FirstDay - DATA_RETENTION_DAYS,
      ind |-> extract_indicators("four_labels"), source_pdf |-> <<"boc", 0>>],
     [id |-> 3, date_rapport |-> get_pdf_date(FirstDay, 43200),
      ind |-> extract_indicators("four_labels"), source_pdf |-> <<"boc", 0>>]}

NoIndicators == [k \in IndicatorKeys |-> "None"]

ExtractInit ==
    /\ indicateurs \in {{}, InitialRows}
    /\ ex_next_id = 4
    /\ ex_files = [d \in TargetDates |-> "none"]
    /\ ex_today = FirstDay
    /\ ex_secs = 43200
    /\ ex_pc = [p \in ExtractProcs |-> "idle"]
    /\ ex_target = [p \in ExtractProcs |-> 0]
    /\ ex_ind = [p \in ExtractProcs |-> NoIndicators]
    /\ ex_existing = [p \in ExtractProcs |-> 0]
    /\ ex_success = [p \in ExtractProcs |-> FALSE]
    /\ ex_before = [p \in ExtractProcs |-> {}]
    /\ ex_start = [p \in ExtractProcs |-> {}]
    /\ ex_trace = [p \in ExtractProcs |-> <<>>]
    /\ ex_pre_cleanup = [p \in ExtractProcs |-> {}]
    /\ ex_deleted = [p \in ExtractProcs |-> 0]
    /\ ex_notified = "none"

\* The extractor at rest, for the specifications of the other components.
ExtractQuiet ==
    /\ ExtractInit
    /\ indicateurs = {}

\* Time passes to the next of 12:00 and 18:00 while no cycle runs.
ExtractTick ==
    /\ \A p \in ExtractProcs : ex_pc[p] = "idle"
    /\ IF ex_secs = 43200
       THEN ex_secs' = 64800 /\ UNCHANGED ex_today
       ELSE /\ ex_today < FirstDay + MaxExDays
            /\ ex_today' = ex_today + 1
            /\ ex_secs' = 43200
    /\ UNCHANGED <<indicateurs, ex_next_id, ex_files, ex_pc, ex_target,
                   ex_ind, ex_existing, ex_success, ex_before,
                   ex_start, ex_trace, ex_pre_cleanup, ex_deleted, ex_notified>>

\* The reference instant of a cycle: now for the scheduled task and for the
\* route without target_date; 12:00 of the given day for the route with it.
ReferenceDays(p) == IF p = "manual" THEN {ex_today - 1, ex_today} ELSE {ex_today}

ReferenceSecs(p, day) == IF p = "manual" /\ day # ex_today THEN 43200 ELSE ex_secs

\* file_exists: os.path.exists on the bulletin's file name, whatever the
\* file holds.
file_is_complete(files, d) == files[d] \in Documents
file_exists(files, d) == files[d] # "none"

\* process_daily_pdf, lines 318-334: resolve the date, build the file name,
\* and download the bulletin unless a file of that name exists; a failed
\* download ends the cycle with False.
StartCycle(p, day, o) ==
    /\ ex_pc[p] = "idle"
    /\ LET d == get_pdf_date(day, ReferenceSecs(p, day)) IN
       /\ ex_target' = [ex_target EXCEPT ![p] = d]
       /\ IF file_exists(ex_files, d)
          THEN /\ ex_pc' = [ex_pc EXCEPT ![p] = "extract"]
               /\ ex_trace' = [ex_trace EXCEPT ![p] = <<"file_exists">>]
               /\ UNCHANGED ex_files
          ELSE /\ ex_files' = [ex_files EXCEPT ![d] = FileAfterDownload(o)]
               /\ ex_trace' = [ex_trace EXCEPT ![p] = <<"download", o>>]
               /\ ex_pc' = [ex_pc EXCEPT ![p] = IF Downloaded(o) THEN "extract"
                                                ELSE "returned"]
    /\ ex_ind' = [ex_ind EXCEPT ![p] = NoIndicators]
    /\ ex_existing' = [ex_existing EXCEPT ![p] = 0]
    /\ ex_success' = [ex_success EXCEPT ![p] = FALSE]
    /\ ex_start' = [ex_start EXCEPT ![p] = indicateurs]
    /\ ex_notified' = IF p = "scheduled" THEN "none" ELSE ex_notified
    /\ UNCHANGED <<indicateurs, ex_next_id, ex_today, ex_secs, ex_before,
                   ex_pre_cleanup, ex_deleted>>

\* Lines 336-341: extract; all four absent ends the cycle with False.
Extract(p) ==
    /\ ex_pc[p] = "extract"
    /\ ex_ind' = [ex_ind EXCEPT ![p] = extract_indicators(ex_files[ex_target[p]])]
    /\ ex_pc' = [ex_pc EXCEPT ![p] = IF AllNone(ex_ind'[p]) THEN "returned"
                                     ELSE "persist"]
    /\ ex_trace' = [ex_trace EXCEPT ![p] = Append(@, "extract")]
    /\ UNCHANGED <<indicateurs, ex_next_id, ex_files, ex_today, ex_secs,
                   ex_target, ex_existing, ex_success, ex_before,
                   ex_start, ex_pre_cleanup, ex_deleted, ex_notified>>

\* save_to_database, lines 234-236: look the date up.
PersistQuery(p) ==
    /\ ex_pc[p] = "persist"
    /\ ex_existing' = [ex_existing EXCEPT ![p] = FirstRowId(indicateurs, ex_target[p])]
    /\ ex_before' = [ex_before EXCEPT ![p] = indicateurs]
    /\ ex_pc' = [ex_pc EXCEPT ![p] = "commit"]
    /\ ex_trace' = [ex_trace EXCEPT ![p] = Append(@, "persist")]
    /\ UNCHANGED <<indicateurs, ex_next_id, ex_files, ex_today, ex_secs,
                   ex_target, ex_ind, ex_success, ex_start, ex_pre_cleanup, ex_deleted, ex_notified>>

\* save_to_database, lines 261-264: db.rollback() drops the pending update or
\* insert; the table keeps the rows it had.
keep_pending_write(table, existing, id, d, ind) == Upsert(table, existing, id, d, ind)
rollback(table, existing, id, d, ind) == table

\* save_to_database, lines 238-264: update or add, commit and return True;
\* on an exception roll back and return False.
PersistCommit(p, outcome) ==
    /\ ex_pc[p] = "commit"
    /\ IF CommitRaises(indicateurs, ex_existing[p], ex_target[p], outcome)
       THEN /\ ex_success' = [ex_success EXCEPT ![p] = FALSE]
            /\ ex_trace' = [ex_trace EXCEPT ![p] = Append(@, "rollback")]
            /\ indicateurs' = rollback(indicateurs, ex_existing[p], ex_next_id,
                                       ex_target[p], ex_ind[p])
            /\ UNCHANGED ex_next_id
       ELSE /\ indicateurs' = Upsert(indicateurs, ex_existing[p], ex_next_id,
                                     ex_target[p], ex_ind[p])
            /\ ex_next_id' = IF ex_existing[p] = 0 THEN ex_next_id + 1 ELSE ex_next_id
            /\ ex_success' = [ex_success EXCEPT ![p] = TRUE]
            /\ ex_trace' = [ex_trace EXCEPT ![p] = Append(@, "commit")]
    /\ ex_pc' = [ex_pc EXCEPT ![p] = "cleanup"]
    /\ UNCHANGED <<ex_files, ex_today, ex_secs, ex_target, ex_ind,
                   ex_existing, ex_before, ex_start, ex_pre_cleanup, ex_deleted, ex_notified>>

\* Line 350: the value process_daily_pdf returns after retention is
\* save_to_database's result; what cleanup_old_data returned is dropped.
result_if_cleaned(success, deleted) == success /\ deleted > 0
cycle_result(success, deleted) == success

\* Lines 346-350: cleanup_old_data (delete and commit, or roll back and
\* return 0), then return save_to_database's result.
Cleanup(p, outcome) ==
    /\ ex_pc[p] = "cleanup"
    /\ indicateurs' = IF outcome = "ok" THEN cleanup_old_data(indicateurs, ex_today)
                      ELSE indicateurs
    /\ ex_deleted' = [ex_deleted EXCEPT ![p] =
                          IF outcome = "ok"
                          THEN Cardinality(indicateurs \ cleanup_old_data(indicateurs, ex_today))
                          ELSE 0]
    /\ ex_pre_cleanup' = [ex_pre_cleanup EXCEPT ![p] = indicateurs]
    /\ ex_trace' = [ex_trace EXCEPT ![p] =
                        Append(@, IF outcome = "ok" THEN "cleanup" ELSE "cleanup_failed")]
    /\ ex_success' = [ex_success EXCEPT ![p] = cycle_result(@, ex_deleted'[p])]
    /\ ex_pc' = [ex_pc EXCEPT ![p] = "returned"]
    /\ UNCHANGED <<ex_next_id, ex_files, ex_today, ex_secs, ex_target,
                   ex_ind, ex_existing, ex_before, ex_start, ex_notified>>

\* extract_pdf_task, lines 59-74: when process_daily_pdf returned True the
\* latest report is read and, if there is one, notify_indicators_update is
\* called; a read that raises skips it (line 82).
extract_task_notifies(success, table, read) ==
    IF ~success THEN "no_data"
    ELSE IF read # "ok" THEN "read_raised"
    ELSE IF table = {} THEN "no_report"
    ELSE "notified"

\* The caller takes the result; the scheduled task goes on to notify the
\* subscribers or not.
EndCycle(p, read) ==
    /\ ex_pc[p] = "returned"
    /\ ex_notified' = IF p = "scheduled"
                      THEN extract_task_notifies(ex_success[p], indicateurs, read)
                      ELSE ex_notified
    /\ ex_pc' = [ex_pc EXCEPT ![p] = "idle"]
    /\ ex_target' = [ex_target EXCEPT ![p] = 0]
    /\ ex_ind' = [ex_ind EXCEPT ![p] = NoIndicators]
    /\ ex_existing' = [ex_existing EXCEPT ![p] = 0]
    /\ ex_success' = [ex_success EXCEPT ![p] = FALSE]
    /\ ex_before' = [ex_before EXCEPT ![p] = {}]
    /\ ex_start' = [ex_start EXCEPT ![p] = {}]
    /\ ex_trace' = [ex_trace EXCEPT ![p] = <<>>]
    /\ ex_pre_cleanup' = [ex_pre_cleanup EXCEPT ![p] = {}]
    /\ ex_deleted' = [ex_deleted EXCEPT ![p] = 0]
    /\ UNCHANGED <<indicateurs, ex_next_id, ex_files, ex_today, ex_secs>>

\* No other cycle is in flight: the cycles run one after the other.
Alone(p) == \A q \in ExtractProcs \ {p} : ex_pc[q] = "idle"

ExtractNext ==
    \/ ExtractTick /\ UNCHANGED notExtractVars
    \/ (\E p \in ExtractProcs, o \in DownloadOutcomes :
            \E day \in ReferenceDays(p) :
                Alone(p) /\ StartCycle(p, day, o)) /\ UNCHANGED notExtractVars
    \/ (\E p \in ExtractProcs : Extract(p)) /\ UNCHANGED notExtractVars
    \/ (\E p \in ExtractProcs : PersistQuery(p)) /\ UNCHANGED notExtractVars
    \/ (\E p \in ExtractProcs, c \in StoreOutcomes : PersistCommit(p, c))
           /\ UNCHANGED notExtractVars
    \/ (\E p \in ExtractProcs, c \in StoreOutcomes : Cleanup(p, c))
           /\ UNCHANGED notExtractVars
    \/ (\E p \in ExtractProcs, r \in StoreOutcomes : EndCycle(p, r))
           /\ UNCHANGED notExtractVars

(***************************************************************************)
(* BRVMScraper.scrape_and_save  (src/app/services/scraper.py)              *)
(***************************************************************************)

\* Rows of a page.
MaxRows == 2

\* Scrape cycles a behaviour runs through.
MaxScrapes == 1

\* The callers of scrape_and_save: scrape_brvm_task and the debug route.
ScrapeProcs == {"scheduled", "manual"}

\* A cell text is a sequence of characters; "nbsp" stands for \xa0 and
\* "nnbsp" for  .
DigitChars == {"0", "1", "2", "3", "4", "5", "6", "7", "8", "9"}

SpaceChars == {" ", "nbsp", "nnbsp"}

DigitVal(c) ==
    CASE c = "0" -> 0 [] c = "1" -> 1 [] c = "2" -> 2 [] c = "3" -> 3 [] c = "4" -> 4
      [] c = "5" -> 5 [] c = "6" -> 6 [] c = "7" -> 7 [] c = "8" -> 8 [] c = "9" -> 9

\* str.strip(): all three space characters are whitespace to Python.
RECURSIVE strip(_)
strip(v) ==
    IF v = <<>> THEN v
    ELSE IF Head(v) \in SpaceChars THEN strip(Tail(v))
    ELSE IF v[Len(v)] \in SpaceChars THEN strip(SubSeq(v, 1, Len(v) - 1))
    ELSE v

IsSpaceChar(c) == c \in SpaceChars
IsDigitChar(c) == c \in DigitChars
NotPoint(c) == c # "."

RemoveSpaces(v) == SelectSeq(v, LAMBDA c : ~IsSpaceChar(c))

CommaToPoint(v) == [i \in 1..Len(v) |-> IF v[i] = "," THEN "." ELSE v[i]]

RECURSIVE DigitsValue(_)
DigitsValue(v) ==
    IF v = <<>> THEN 0
    ELSE DigitsValue(SubSeq(v, 1, Len(v) - 1)) * 10 + DigitVal(v[Len(v)])

AllDigits(v) == Len(v) > 0 /\ \A i \in 1..Len(v) : IsDigitChar(v[i])

Signed(v) == Len(v) > 0 /\ v[1] \in {"-", "+"}
Unsigned(v) == IF Signed(v) THEN Tail(v) ELSE v
SignOf(v) == IF Signed(v) /\ v[1] = "-" THEN -1 ELSE 1

\* int(cleaned): an optional sign and digits, else ValueError.
IntLiteral(v) == AllDigits(Unsigned(v))
IntValue(v) == SignOf(v) * DigitsValue(Unsigned(v))

\* A decimal numeral: an optional sign, digits and at most one point.
DecimalLiteral(v) ==
    /\ AllDigits(SelectSeq(Unsigned(v), NotPoint))
    /\ Len(SelectSeq(Unsigned(v), NotPoint)) >= Len(Unsigned(v)) - 1
    /\ \A i \in 1..Len(Unsigned(v)) : Unsigned(v)[i] = "." \/ IsDigitChar(Unsigned(v)[i])

PointAt(v) == IF \E i \in 1..Len(v) : v[i] = "."
              THEN CHOOSE i \in 1..Len(v) : v[i] = "."
              ELSE Len(v)

RECURSIVE Normal(_, _)
Normal(m, k) == IF k > 0 /\ m % 10 = 0 THEN Normal(m \div 10, k - 1) ELSE <<m, k>>

\* float() also accepts the words nan and inf behind an optional sign (and
\* infinity, exponents and underscores, whose characters the modelled cells
\* do not hold).
NonFiniteLiteral(v) == Unsigned(v) \in {<<"n", "a", "n">>, <<"i", "n", "f">>}

\* float(cleaned): a decimal numeral or a non-finite word, else ValueError.
FloatLiteral(v) == DecimalLiteral(v) \/ NonFiniteLiteral(v)

\* The value m / 10^k is the pair <<m, k>> with k minimal; nan is <<0, -1>>,
\* inf is <<1, -1>> and -inf is <<-1, -1>>.
FloatValue(v) ==
    IF NonFiniteLiteral(v)
    THEN <<IF Unsigned(v) = <<"n", "a", "n">> THEN 0 ELSE SignOf(v), -1>>
    ELSE Normal(SignOf(v) * DigitsValue(SelectSeq(Unsigned(v), NotPoint)),
                Len(Unsigned(v)) - PointAt(Unsigned(v)))

\* Python's None for an optional float.
None == <<>>

\* The tokens for which both parsers return their default.
DefaultTokens == {<<"-">>, <<"0">>, <<>>}

\* parse_int, lines 133-143
parse_int(value) ==
    IF value = <<>> \/ strip(value) \in DefaultTokens THEN 0
    ELSE IF strip(RemoveSpaces(value)) = <<>> THEN 0
    ELSE IF IntLiteral(strip(RemoveSpaces(value)))
         THEN IntValue(strip(RemoveSpaces(value)))
         ELSE 0

\* parse_float, lines 121-131
parse_float(value) ==
    IF value = <<>> \/ strip(value) \in DefaultTokens THEN None
    ELSE IF strip(CommaToPoint(RemoveSpaces(value))) = <<>> THEN None
    ELSE IF FloatLiteral(strip(CommaToPoint(RemoveSpaces(value))))
         THEN FloatValue(strip(CommaToPoint(RemoveSpaces(value))))
         ELSE None

\* A table row of the page: its number of cells, the text of the symbol
\* cell, of the volume cell and of the closing price cell (the previous close
\* and the opening price are parsed like the closing price).  The cell texts
\* of the pages are "12 500", "1 020,50", "-" and "-5".
PageRow(n, sym, vol, cours) ==
    [cells |-> n, symbole |-> sym, volume |-> vol, cours_cloture |-> cours]

PageRows ==
    {PageRow(7, "ABCD", <<"1", "2", " ", "5", "0", "0">>,
             <<"1", " ", "0", "2", "0", ",", "5", "0">>),
     PageRow(7, "EFGH", <<"-">>, <<"-">>),
     PageRow(6, "EFGH", <<"1", "2", " ", "5", "0", "0">>, <<"-">>),
     PageRow(7, "", <<"-">>, <<"-">>),
     PageRow(7, "abcd", <<"-", "5">>, <<"-">>)}

RECURSIVE SeqsUpTo(_, _)
SeqsUpTo(S, n) ==
    IF n = 0 THEN {<<>>}
    ELSE SeqsUpTo(S, n - 1) \cup {Append(q, x) : q \in SeqsUpTo(S, n - 1), x \in S}

\* The pages fetch_page can return.
Pages == SeqsUpTo(PageRows, MaxRows)

\* fetch_page: the text of the page, or None on a RequestException.
FetchOutcomes == {"ok", "RequestException"}

\* parse_actions, line 115: a row with fewer than 7 cells is skipped.
HasSixCells(row) == row.cells >= 6
HasSevenCells(row) == row.cells >= 7

\* str.upper() on the symbols of the pages; get_action_by_symbole looks a
\* quote up by symbole.upper() (src/app/api/routes/actions.py:81).
upper(sym) == IF sym = "abcd" THEN "ABCD" ELSE sym

\* parse_actions, lines 166-183: the dictionary of a row.
action_dict(row) ==
    [symbole |-> row.symbole,
     volume |-> parse_int(row.volume),
     cours_cloture |-> parse_float(row.cours_cloture)]

\* parse_actions, lines 108-193: rows with too few cells or an empty symbol
\* are skipped, the others give one dictionary each, in page order.
\* parse_actions, lines 169-171: a row with an empty symbol is skipped.
AnySymbol(row) == TRUE
HasSymbol(row) == row.symbole # ""

RECURSIVE parse_actions(_)
parse_actions(page) ==
    IF page = <<>> THEN <<>>
    ELSE IF HasSevenCells(Head(page)) /\ HasSymbol(Head(page))
         THEN <<action_dict(Head(page))>> \o parse_actions(Tail(page))
         ELSE parse_actions(Tail(page))

ZeroStats == [inserted |-> 0, updated |-> 0, errors |-> 0]

\* scrape_and_save, lines 268 and 273
SilentFailureStats == [inserted |-> 0, updated |-> 0, errors |-> 0]
FailureStats == [inserted |-> 0, updated |-> 0, errors |-> 1]

\* save_to_database, line 218: .filter(Action.symbole == symbole).first();
\* 0 when there is none.  The session does not autoflush, so rows added
\* earlier in the same loop are not seen.
existing_action(table, sym) ==
    IF \E r \in table : r.symbole = sym
    THEN CHOOSE i \in {r.id : r \in {x \in table : x.symbole = sym}} :
             \A r \in {x \in table : x.symbole = sym} : i <= r.id
    ELSE 0

\* The symbols a sequence of pending changes inserts.
InsertedSymbols(pending) ==
    {pending[i].data.symbole : i \in {k \in 1..Len(pending) : pending[k].op = "insert"}}

InsertCount(pending, sym) ==
    Cardinality({k \in 1..Len(pending) :
                     pending[k].op = "insert" /\ pending[k].data.symbole = sym})

\* db.commit() raises when the store does (outcome "error") and when the
\* flush would give a symbol two rows (Action.symbole is unique).
ScrapeCommitRaisesNoUnique(table, pending, outcome) == outcome # "ok"
ScrapeCommitRaises(table, pending, outcome) ==
    \/ outcome # "ok"
    \/ \E sym \in InsertedSymbols(pending) :
           \/ \E r \in table : r.symbole = sym
           \/ InsertCount(pending, sym) > 1

\* The table actions after the flush of the pending changes: every UPDATE
\* sets the fields of its row, every INSERT adds a row with the next id.
RECURSIVE FlushActions(_, _, _)
FlushActions(table, pending, id) ==
    IF pending = <<>> THEN table
    ELSE IF Head(pending).op = "update"
         THEN FlushActions({IF r.id = Head(pending).id
                            THEN [id |-> r.id,
                                  symbole |-> Head(pending).data.symbole,
                                  volume |-> Head(pending).data.volume,
                                  cours_cloture |-> Head(pending).data.cours_cloture]
                            ELSE r : r \in table},
                           Tail(pending), id)
         ELSE FlushActions(table \cup {[id |-> id,
                                        symbole |-> Head(pending).data.symbole,
                                        volume |-> Head(pending).data.volume,
                                        cours_cloture |-> Head(pending).data.cours_cloture]},
                           Tail(pending), id + 1)

\* The snapshots the flush adds: one per pending change.
FlushSnapshots(pending, id) ==
    {[id |-> id + k - 1, symbole |-> pending[k].data.symbole,
      data_snapshot |-> pending[k].data] : k \in 1..Len(pending)}

\* Rows the table actions may hold before the first cycle.
InitialActions ==
    {[id |-> 1, symbole |-> "ABCD", volume |-> 7, cours_cloture |-> <<1000, 0>>]}

ScrapeInit ==
    /\ actions \in SUBSET InitialActions
    /\ historique_actions = {}
    /\ sc_next_id = 2
    /\ sc_hist_id = 1
    /\ sc_cycles = 0
    /\ sc_pc = [p \in ScrapeProcs |-> "idle"]
    /\ sc_page = [p \in ScrapeProcs |-> <<>>]
    /\ sc_data = [p \in ScrapeProcs |-> <<>>]
    /\ sc_idx = [p \in ScrapeProcs |-> 0]
    /\ sc_stats = [p \in ScrapeProcs |-> ZeroStats]
    /\ sc_pending = [p \in ScrapeProcs |-> <<>>]
    /\ sc_before = [p \in ScrapeProcs |-> [actions |-> {}, historique |-> {}]]
    /\ sc_fault = [p \in ScrapeProcs |-> FALSE]
    /\ sc_notified = FALSE

\* The scraper at rest, for the specifications of the other components.
ScrapeQuiet ==
    /\ ScrapeInit
    /\ actions = {}

\* scrape_and_save, lines 265-275: fetch and parse; no page or no quote
\* returns FailureStats, else save_to_database starts with zero stats.
ScrapeStart(p, fetch, fetched) ==
    /\ sc_pc[p] = "idle"
    /\ sc_cycles' = sc_cycles + 1
    /\ sc_before' = [sc_before EXCEPT ![p] = [actions |-> actions,
                                              historique |-> historique_actions]]
    /\ sc_pending' = [sc_pending EXCEPT ![p] = <<>>]
    /\ sc_fault' = [sc_fault EXCEPT ![p] = FALSE]
    /\ IF fetch # "ok"
       THEN /\ sc_page' = [sc_page EXCEPT ![p] = <<>>]
            /\ sc_data' = [sc_data EXCEPT ![p] = <<>>]
            /\ sc_stats' = [sc_stats EXCEPT ![p] = FailureStats]
            /\ sc_idx' = [sc_idx EXCEPT ![p] = 0]
            /\ sc_pc' = [sc_pc EXCEPT ![p] = "returned"]
       ELSE LET actions_data == parse_actions(fetched) IN
            /\ sc_page' = [sc_page EXCEPT ![p] = fetched]
            /\ sc_data' = [sc_data EXCEPT ![p] = actions_data]
            /\ IF actions_data = <<>>
               THEN /\ sc_stats' = [sc_stats EXCEPT ![p] = FailureStats]
                    /\ sc_idx' = [sc_idx EXCEPT ![p] = 0]
                    /\ sc_pc' = [sc_pc EXCEPT ![p] = "returned"]
               ELSE /\ sc_stats' = [sc_stats EXCEPT ![p] = ZeroStats]
                    /\ sc_idx' = [sc_idx EXCEPT ![p] = 1]
                    /\ sc_pc' = [sc_pc EXCEPT ![p] = "save"]
    /\ sc_notified' = (sc_notified /\ p # "scheduled")
    /\ UNCHANGED <<actions, historique_actions, sc_next_id, sc_hist_id>>

\* save_to_database, lines 213-241: one turn of the loop.  The lookup either
\* answers, and the quote is updated or added together with its snapshot, or
\* raises, and the quote is counted in errors.
SaveItem(p, lookup) ==
    /\ sc_pc[p] = "save"
    /\ LET item == sc_data[p][sc_idx[p]]
           found == existing_action(actions, item.symbole) IN
       IF lookup # "ok"
       THEN /\ sc_stats' = [sc_stats EXCEPT ![p].errors = @ + 1]
            /\ sc_fault' = [sc_fault EXCEPT ![p] = TRUE]
            /\ UNCHANGED sc_pending
       ELSE /\ sc_pending' = [sc_pending EXCEPT ![p] =
                  Append(@, [op |-> IF found # 0 THEN "update" ELSE "insert",
                             id |-> found, data |-> item])]
            /\ sc_stats' = IF found # 0
                           THEN [sc_stats EXCEPT ![p].updated = @ + 1]
                           ELSE [sc_stats EXCEPT ![p].inserted = @ + 1]
            /\ UNCHANGED sc_fault
    /\ sc_idx' = [sc_idx EXCEPT ![p] = @ + 1]
    /\ sc_pc' = [sc_pc EXCEPT ![p] = IF sc_idx[p] = Len(sc_data[p]) THEN "commit"
                                     ELSE "save"]
    /\ UNCHANGED <<actions, historique_actions, sc_next_id, sc_hist_id, sc_cycles,
                   sc_page, sc_data, sc_before, sc_notified>>

\* save_to_database, lines 243-251: commit and return stats; on an exception
\* roll back and raise it again.
ScrapeCommit(p, outcome) ==
    /\ sc_pc[p] = "commit"
    /\ IF ScrapeCommitRaises(actions, sc_pending[p], outcome)
       THEN /\ sc_pc' = [sc_pc EXCEPT ![p] = "raised"]
            /\ sc_fault' = [sc_fault EXCEPT ![p] = TRUE]
            /\ UNCHANGED <<actions, historique_actions, sc_next_id, sc_hist_id>>
       ELSE /\ actions' = FlushActions(actions, sc_pending[p], sc_next_id)
            /\ historique_actions' =
                   historique_actions \cup FlushSnapshots(sc_pending[p], sc_hist_id)
            /\ sc_next_id' = sc_next_id + Cardinality(InsertedSymbols(sc_pending[p]))
            /\ sc_hist_id' = sc_hist_id + Len(sc_pending[p])
            /\ sc_pc' = [sc_pc EXCEPT ![p] = "returned"]
            /\ UNCHANGED sc_fault
    /\ sc_pending' = [sc_pending EXCEPT ![p] = <<>>]
    /\ UNCHANGED <<sc_cycles, sc_page, sc_data, sc_idx, sc_stats, sc_before, sc_notified>>

\* scrape_brvm_task, lines 36-40: notify_actions_update is called when
\* scrape_and_save returned stats with inserted > 0 or updated > 0; an
\* exception skips it (line 46).
notifies_on_any_result(pc, stats) == pc = "returned"
scrape_task_notifies(pc, stats) == pc = "returned" /\ (stats.inserted > 0 \/ stats.updated > 0)

\* The caller takes the result or the exception; the scheduled task goes on
\* to notify the subscribers or not.
ScrapeEnd(p) ==
    /\ sc_pc[p] \in {"returned", "raised"}
    /\ sc_notified' = IF p = "scheduled"
                      THEN scrape_task_notifies(sc_pc[p], sc_stats[p])
                      ELSE sc_notified
    /\ sc_pc' = [sc_pc EXCEPT ![p] = "idle"]
    /\ sc_page' = [sc_page EXCEPT ![p] = <<>>]
    /\ sc_data' = [sc_data EXCEPT ![p] = <<>>]
    /\ sc_idx' = [sc_idx EXCEPT ![p] = 0]
    /\ sc_stats' = [sc_stats EXCEPT ![p] = ZeroStats]
    /\ sc_before' = [sc_before EXCEPT ![p] = [actions |-> {}, historique |-> {}]]
    /\ sc_fault' = [sc_fault EXCEPT ![p] = FALSE]
    /\ UNCHANGED <<actions, historique_actions, sc_next_id, sc_hist_id, sc_cycles,
                   sc_pending>>

\* No other scrape cycle is in flight.
ScrapeAlone(p) == \A q \in ScrapeProcs \ {p} : sc_pc[q] = "idle"

ScrapeNext ==
    \/ (\E p \in ScrapeProcs, f \in FetchOutcomes :
            \E page \in IF f = "ok" THEN Pages ELSE {<<>>} :
                /\ ScrapeAlone(p)
                /\ sc_cycles < MaxScrapes
                /\ ScrapeStart(p, f, page)) /\ UNCHANGED notScrapeVars
    \/ (\E p \in ScrapeProcs, l \in StoreOutcomes : SaveItem(p, l))
           /\ UNCHANGED notScrapeVars
    \/ (\E p \in ScrapeProcs, c \in StoreOutcomes : ScrapeCommit(p, c))
           /\ UNCHANGED notScrapeVars
    \/ (\E p \in ScrapeProcs : ScrapeEnd(p)) /\ UNCHANGED notScrapeVars

\* The pages of two scrape cycles that meet: rows for a quote the store may
\* hold (ABCD) and for one it does not hold (EFGH), each up to MaxRows times.
RacePages ==
    SeqsUpTo({row \in PageRows : row.cells = 7 /\ row.symbole \in {"ABCD", "EFGH"}},
             MaxRows)

\* Two scrape cycles, the scheduled one and a manual one, each with its own
\* session and run once, their steps interleaved in every order.
ScrapeRaceNext ==
    \/ (\E p \in ScrapeProcs, page \in RacePages : ScrapeStart(p, "ok", page))
           /\ UNCHANGED notScrapeVars
    \/ (\E p \in ScrapeProcs, l \in StoreOutcomes : SaveItem(p, l))
           /\ UNCHANGED notScrapeVars
    \/ (\E p \in ScrapeProcs, c \in StoreOutcomes : ScrapeCommit(p, c))
           /\ UNCHANGED notScrapeVars

\* Two cycles, the scheduled one and a manual one, each with its own session
\* and run once, their steps interleaved in every order; the manual one may
\* have been given the old target_date.
ExtractRaceNext ==
    \/ (\E p \in ExtractProcs, o \in DownloadOutcomes :
            \E day \in ReferenceDays(p) \cup (IF p = "manual" THEN {OldReferenceDay} ELSE {}) :
                ex_trace[p] = <<>> /\ StartCycle(p, day, o)) /\ UNCHANGED notExtractVars
    \/ (\E p \in ExtractProcs : Extract(p)) /\ UNCHANGED notExtractVars
    \/ (\E p \in ExtractProcs : PersistQuery(p)) /\ UNCHANGED notExtractVars
    \/ (\E p \in ExtractProcs, c \in StoreOutcomes : PersistCommit(p, c))
           /\ UNCHANGED notExtractVars
    \/ (\E p \in ExtractProcs, c \in StoreOutcomes : Cleanup(p, c))
           /\ UNCHANGED notExtractVars

(***************************************************************************)
(* parse_float and parse_int on their own                                  *)
(* (src/app/services/scraper.py:121-143)                                   *)
(***************************************************************************)

\* Longest cell text enumerated character by character.
MaxTokenLen == 3

\* The cell texts handed to the parsers: every text of up to MaxTokenLen
\* characters, and three longer ones.
Tokens ==
    SeqsUpTo({"0", "1", "-", ",", ".", " ", "nbsp", "n", "a"}, MaxTokenLen)
        \cup {<<"1", " ", "2", "3", "4", ",", "5", "6">>,
              <<"1", "2", "nbsp", "5", "0", "0">>,
              <<"-", "i", "n", "f">>}

ParseInit ==
    /\ pa_value \in Tokens
    /\ pa_float = None
    /\ pa_int = 0
    /\ pa_done = {}

ParseQuiet ==
    /\ ParseInit
    /\ pa_value = <<>>

ApplyParseFloat ==
    /\ "parse_float" \notin pa_done
    /\ pa_float' = parse_float(pa_value)
    /\ pa_done' = pa_done \cup {"parse_float"}
    /\ UNCHANGED <<pa_value, pa_int>>

ApplyParseInt ==
    /\ "parse_int" \notin pa_done
    /\ pa_int' = parse_int(pa_value)
    /\ pa_done' = pa_done \cup {"parse_int"}
    /\ UNCHANGED <<pa_value, pa_float>>

ParseNext ==
    \/ ApplyParseFloat /\ UNCHANGED notParseVars
    \/ ApplyParseInt /\ UNCHANGED notParseVars

(***************************************************************************)
(* Specifications                                                          *)
(***************************************************************************)

DateSpecInit == DateInit /\ WebhookQuiet /\ SchedQuiet /\ ExtractQuiet /\ ScrapeQuiet /\ ParseQuiet
WebhookSpecInit == WebhookInit /\ DateQuiet /\ SchedQuiet /\ ExtractQuiet /\ ScrapeQuiet /\ ParseQuiet
SchedSpecInit == SchedInit /\ DateQuiet /\ WebhookQuiet /\ ExtractQuiet /\ ScrapeQuiet /\ ParseQuiet
ExtractSpecInit == ExtractInit /\ DateQuiet /\ WebhookQuiet /\ SchedQuiet /\ ScrapeQuiet /\ ParseQuiet
ScrapeSpecInit == ScrapeInit /\ DateQuiet /\ WebhookQuiet /\ SchedQuiet /\ ExtractQuiet /\ ParseQuiet
ParseSpecInit == ParseInit /\ DateQuiet /\ WebhookQuiet /\ SchedQuiet /\ ExtractQuiet /\ ScrapeQuiet

SpecDate ==
    /\ DateSpecInit
    /\ [][DateNext]_vars

SpecWebhook ==
    /\ WebhookSpecInit
    /\ [][WebhookNext]_vars

SpecSched ==
    /\ SchedSpecInit
    /\ [][SchedNext]_vars

SpecExtract ==
    /\ ExtractSpecInit
    /\ [][ExtractNext]_vars

SpecScrape ==
    /\ ScrapeSpecInit
    /\ [][ScrapeNext]_vars

SpecParse ==
    /\ ParseSpecInit
    /\ [][ParseNext]_vars

SpecExtractRace ==
    /\ ExtractSpecInit
    /\ [][ExtractRaceNext]_vars

SpecScrapeRace ==
    /\ ScrapeSpecInit
    /\ [][ScrapeRaceNext]_vars

(***************************************************************************)
(* Claims                                                                  *)
(***************************************************************************)

\* C1: at or after 17:30:00 on a weekday get_pdf_date returns the reference
\* date itself; before 17:30:00 it returns the previous calendar day, or the
\* Friday before it when that day is a Saturday or a Sunday; 17:30:00 exactly
\* counts as "at or after".
C1_CutoffRule ==
    date_pc = "done" =>
        LET prev == reference_day - 1 IN
        /\ (reference_secs >= CUTOFF_SECS /\ Weekday(reference_day) \in 0..4)
              => pdf_date = reference_day
        /\ (reference_secs < CUTOFF_SECS)
              => pdf_date = CASE Weekday(prev) = 5 -> prev - 1
                              [] Weekday(prev) = 6 -> prev - 2
                              [] OTHER -> prev

\* C1 witness: a call exactly at 17:30:00 on a weekday has returned that day.
C1_Witness ==
    /\ date_pc = "done"
    /\ reference_secs = CUTOFF_SECS
    /\ Weekday(reference_day) \in 0..4
    /\ pdf_date = reference_day

\* C2: the returned date is a Monday-to-Friday date, lies on or before the
\* candidate date, and every day strictly between it and the candidate
\* (candidate included) is a Saturday or a Sunday: it is the most recent
\* weekday on or before the candidate and no weekday is skipped.
C2_MostRecentWeekday ==
    date_pc = "done" =>
        LET cand == IF reference_secs < CUTOFF_SECS
                    THEN reference_day - 1 ELSE reference_day IN
        /\ Weekday(pdf_date) \in 0..4
        /\ pdf_date <= cand
        /\ \A d \in (pdf_date + 1)..cand : Weekday(d) \in {5, 6}
        /\ Weekday(cand) \in {5, 6} => Weekday(pdf_date) = 4

\* C2 witness: a candidate that fell on a Sunday was rolled back two days to
\* the Friday.
C2_Witness ==
    /\ date_pc = "done"
    /\ reference_secs >= CUTOFF_SECS
    /\ Weekday(reference_day) = 6
    /\ pdf_date = reference_day - 2

\* C3: broadcast_to_webhooks calls send_webhook at most once per subscriber
\* and never for a subscriber that was inactive when the subscribers were
\* listed; when it returns, and the store raised no error during the
\* broadcast, it has called send_webhook exactly once for every subscriber
\* that was active at the listing, whatever the other deliveries returned,
\* success + failed is the number of those subscribers and success is the
\* number of deliveries that returned true.
C3_DeliverOncePerActive ==
    LET active == {w \in SubIds : wh_before[w].is_active = 1} IN
    /\ \A w \in SubIds : wh_calls[w] <= (IF w \in active THEN 1 ELSE 0)
    /\ (wh_pc = "returned" /\ ~wh_store_fault) =>
          /\ \A w \in active : wh_calls[w] = 1
          /\ wh_stats.success + wh_stats.failed = Cardinality(active)
          /\ wh_stats.success = Cardinality({w \in SubIds : wh_result[w] = "true"})

\* C3 witness: a broadcast to 3 active subscribers, one of which failed,
\* has returned success 2, failed 1.
C3_Witness ==
    /\ wh_pc = "returned"
    /\ ~wh_store_fault
    /\ \A w \in 1..3 : wh_before[w].is_active = 1 /\ wh_calls[w] = 1
    /\ Cardinality({w \in 1..3 : wh_result[w] = "false"}) = 1
    /\ wh_stats.success = 2
    /\ wh_stats.failed = 1

\* C4: the last_triggered of a subscriber whose delivery did not succeed in
\* this broadcast (it failed, or the subscriber was inactive) never changes;
\* when the broadcast returns, and the store raised no error during it, the
\* last_triggered of a subscriber has changed if and only if its delivery
\* succeeded.
C4_TimestampIffDelivered ==
    /\ \A w \in SubIds :
          wh_result[w] # "true" =>
              webhooks[w].last_triggered = wh_before[w].last_triggered
    /\ (wh_pc = "returned" /\ ~wh_store_fault) =>
          \A w \in SubIds :
              (webhooks[w].last_triggered # wh_before[w].last_triggered)
                  <=> (wh_result[w] = "true")

\* C4 witness: a broadcast has returned after one delivery that succeeded
\* (timestamp rewritten), one that failed (old timestamp 1 kept) and with one
\* inactive subscriber (timestamp kept).
C4_Witness ==
    /\ wh_pc = "returned"
    /\ ~wh_store_fault
    /\ \E a, b, c \in SubIds :
          /\ wh_result[a] = "true"
          /\ wh_before[a].last_triggered = 1
          /\ webhooks[a].last_triggered > 1
          /\ wh_result[b] = "false"
          /\ webhooks[b].last_triggered = 1
          /\ wh_before[c].is_active = 0
          /\ webhooks[c].last_triggered = wh_before[c].last_triggered

\* C5: one send_webhook call makes at most max_retries POSTs; every POST
\* before the last one failed; it returns true exactly when its last POST
\* succeeded (so none follows the first success) and false only after
\* max_retries failed POSTs; no timeout or other requests exception leaves it.
C5_BoundedRetries ==
    LET n == Len(wh_outcomes) IN
    /\ n <= WEBHOOK_MAX_RETRIES
    /\ \A i \in 1..(n - 1) : wh_outcomes[i] # "ok"
    /\ wh_escaped \notin RequestExceptions
    /\ wh_pc = "post" => /\ n = wh_attempt - 1
                         /\ \A i \in 1..n : wh_outcomes[i] # "ok"
    /\ wh_pc = "sent" =>
          /\ wh_result[Current] \in {"true", "false"}
          /\ wh_result[Current] = "true" => wh_outcomes[n] = "ok"
          /\ wh_result[Current] = "false" =>
                /\ n = WEBHOOK_MAX_RETRIES
                /\ \A i \in 1..n : wh_outcomes[i] # "ok"

\* C5 witness: a call has returned true at its third POST, after a timeout
\* and an HTTP error.
C5_Witness ==
    /\ wh_pc = "sent"
    /\ wh_outcomes = <<"Timeout", "HTTPError", "ok">>
    /\ wh_result[Current] = "true"

\* C6: when send_webhook is about to make attempt k + 1, at least 2^k seconds
\* have passed since attempt k failed.
C6_BackoffWait ==
    (wh_pc = "post" /\ wh_attempt >= 2) =>
        wh_now >= wh_failed_at + 2 ^ (wh_attempt - 1)

\* C7: at every moment at most one execution of scrape_brvm_task and at most
\* one execution of extract_pdf_task is in flight, whichever job (timer or
\* manual trigger) fired.
C7_OneRunPerTask ==
    \A t \in Tasks :
        Cardinality({j \in JobIds : TaskOf(j) = t /\ run_pc[j] # "idle"}) <= 1

\* C8: every callback that has finished its cycle returned normally, whatever
\* was raised inside the cycle or by the commit of the session context
\* manager; the scheduler is running; and a job whose callback is over holds
\* no running instance, so its next firing is started.
C8_ExceptionsCaught ==
    /\ sched_running
    /\ \A j \in JobIds :
          /\ run_pc[j] = "finished" => run_result[j] = "returned"
          /\ run_result[j] # "raised"
          /\ run_pc[j] = "idle" => (job_instances[j] = 0 /\ MaySubmit(j))

\* C8 witness: the scrape job is running again after a cycle of it in which a
\* persistence error was raised and caught, and so has an extract job.
C8_Witness ==
    /\ run_caught["scrape_brvm"]
    /\ run_pc["scrape_brvm"] = "running"
    /\ run_caught["extract_pdf_12h"]
    /\ run_pc["extract_pdf_12h"] = "finished"
    /\ run_exc["extract_pdf_12h"] = "SQLAlchemyError"
    /\ run_result["extract_pdf_12h"] = "returned"


\* C9: with extract cycles run one after the other, the table never holds two
\* reports for one date.  When save_to_database has returned True for a date
\* that had a report, no row was added, that row keeps its id and date and
\* carries the newly extracted four indicators (None where the extraction
\* found nothing) and the bulletin's URL, and every other row is as before.
\* When the cycle returns True, second run for the date included, the table
\* holds exactly one row for the date, with the extracted values.
C9_UpsertByDate ==
    /\ \A r1 \in indicateurs, r2 \in indicateurs :
           r1.date_rapport = r2.date_rapport => r1 = r2
    /\ \A p \in ExtractProcs :
           (ex_pc[p] = "cleanup" /\ ex_success[p]) =>
               LET d == ex_target[p]
                   old == RowsFor(ex_before[p], d)
                   new == RowsFor(indicateurs, d) IN
               /\ Cardinality(new) = 1
               /\ \A r \in new : /\ r.ind = ex_ind[p]
                                 /\ r.source_pdf = generate_pdf_url(d)
               /\ old # {} =>
                      /\ Cardinality(indicateurs) = Cardinality(ex_before[p])
                      /\ {r.id : r \in new} = {r.id : r \in old}
                      /\ indicateurs \ new = ex_before[p] \ old
    /\ \A p \in ExtractProcs :
           (ex_pc[p] = "returned" /\ ex_success[p]) =>
               /\ Cardinality(RowsFor(indicateurs, ex_target[p])) = 1
               /\ \A r \in RowsFor(indicateurs, ex_target[p]) : r.ind = ex_ind[p]

\* C9 witness: a second cycle for the first targeted date has returned True.
\* The report the table first held for that date (id 3, four indicators,
\* another source) had been overwritten by an earlier cycle, which left the
\* bulletin's URL in it; it is still the only row for the date and carries the
\* two extracted indicators, None for the two others.
C9_Witness ==
    LET d == get_pdf_date(FirstDay, 43200) IN
    /\ ex_pc["scheduled"] = "returned"
    /\ ex_success["scheduled"]
    /\ ex_target["scheduled"] = d
    /\ \E o \in ex_before["scheduled"] :
           o.id = 3 /\ o.date_rapport = d /\ o.source_pdf = generate_pdf_url(d)
    /\ RowsFor(indicateurs, d) =
           {[id |-> 3, date_rapport |-> d, ind |-> extract_indicators("two_labels"),
             source_pdf |-> generate_pdf_url(d)]}
    /\ extract_indicators("two_labels")["prime_risque_marche"] = "None"

\* The symbols of a list of quotes are pairwise distinct.
DistinctSymbols(data) ==
    \A i \in 1..Len(data), j \in 1..Len(data) :
        data[i].symbole = data[j].symbole => i = j

\* The page of the scenario: one well-formed row for ABCD and one row of six
\* cells.
ScenarioPage ==
    <<PageRow(7, "ABCD", <<"1", "2", " ", "5", "0", "0">>,
              <<"1", " ", "0", "2", "0", ",", "5", "0">>),
      PageRow(6, "EFGH", <<"1", "2", " ", "5", "0", "0">>, <<"-">>)>>

\* C10: when a scrape cycle has returned from save_to_database, inserted +
\* updated + errors is the number of parsed quotes and the snapshots added are
\* inserted + updated.  When moreover the symbols are pairwise distinct and no
\* store operation raised: every quote whose symbol was not in the table has
\* one new row with its fields, every quote whose symbol was in the table has
\* its row (same id) carrying the quote's fields, rows of other symbols are
\* untouched, exactly one snapshot was added per quote, inserted and updated
\* count the two kinds, and errors = 0.  The scenario page on an empty table
\* gives inserted 1, updated 0, errors 0 and one snapshot, for ABCD.
C10_ScrapeCounts ==
    \A p \in ScrapeProcs :
        (sc_pc[p] = "returned" /\ sc_data[p] # <<>>) =>
            LET data == sc_data[p]
                n == Len(data)
                was == sc_before[p].actions
                added == historique_actions \ sc_before[p].historique
                fresh == {i \in 1..n : ~\E r \in was : r.symbole = data[i].symbole}
                known == {i \in 1..n : \E r \in was : r.symbole = data[i].symbole} IN
            /\ sc_stats[p].inserted + sc_stats[p].updated + sc_stats[p].errors = n
            /\ Cardinality(added) = sc_stats[p].inserted + sc_stats[p].updated
            /\ (DistinctSymbols(data) /\ ~sc_fault[p]) =>
                   /\ sc_stats[p].inserted = Cardinality(fresh)
                   /\ sc_stats[p].updated = Cardinality(known)
                   /\ sc_stats[p].inserted + sc_stats[p].updated = n
                   /\ sc_stats[p].errors = 0
                   /\ Cardinality(added) = n
                   /\ \A i \in 1..n :
                          /\ Cardinality({h \in added : h.symbole = data[i].symbole
                                                       /\ h.data_snapshot = data[i]}) = 1
                          /\ Cardinality({r \in actions : r.symbole = data[i].symbole}) = 1
                          /\ \A r \in actions :
                                 r.symbole = data[i].symbole =>
                                     /\ r.volume = data[i].volume
                                     /\ r.cours_cloture = data[i].cours_cloture
                                     /\ i \in known => r.id \in {o.id : o \in was}
                                     /\ i \in fresh => r.id \notin {o.id : o \in was}
                   /\ \A r \in was :
                          (\A i \in 1..n : data[i].symbole # r.symbole) => r \in actions
                   /\ (sc_page[p] = ScenarioPage /\ was = {}) =>
                          /\ sc_stats[p] = [inserted |-> 1, updated |-> 0, errors |-> 0]
                          /\ {h.symbole : h \in added} = {"ABCD"}
                          /\ Cardinality(added) = 1

\* C10 witness: a cycle has returned inserted 1, updated 1, errors 0 for a
\* page with ABCD and EFGH on a table that held ABCD: ABCD's row has been
\* overwritten with volume 12500 and close 1020.5, EFGH's row has been added
\* with volume 0 and no close, and two snapshots are stored.
C10_Witness ==
    /\ sc_pc["scheduled"] = "returned"
    /\ ~sc_fault["scheduled"]
    /\ sc_before["scheduled"].actions = InitialActions
    /\ sc_before["scheduled"].historique = {}
    /\ Len(sc_data["scheduled"]) = 2
    /\ sc_stats["scheduled"] = [inserted |-> 1, updated |-> 1, errors |-> 0]
    /\ actions = {[id |-> 1, symbole |-> "ABCD", volume |-> 12500,
                   cours_cloture |-> <<10205, 1>>],
                  [id |-> 2, symbole |-> "EFGH", volume |-> 0, cours_cloture |-> None]}
    /\ Cardinality(historique_actions) = 2

\* C11: when scrape_and_save has returned without a quote to save (the fetch
\* failed, or parse_actions gave the empty list), its result is exactly
\* inserted 0, updated 0, errors 1, no change is pending in the session, and
\* both tables are what they were when the cycle started.
C11_FailureLeavesStore ==
    \A p \in ScrapeProcs :
        (sc_pc[p] = "returned" /\ sc_data[p] = <<>>) =>
            /\ sc_stats[p] = [inserted |-> 0, updated |-> 0, errors |-> 1]
            /\ sc_pending[p] = <<>>
            /\ actions = sc_before[p].actions
            /\ historique_actions = sc_before[p].historique

\* C11 witness: a page whose only rows are a six-cell row and a row with an
\* empty symbol has been fetched on a table holding ABCD; the cycle returned
\* the failure result and the table still holds exactly that row.
C11_Witness ==
    /\ sc_pc["scheduled"] = "returned"
    /\ Len(sc_page["scheduled"]) = 2
    /\ sc_data["scheduled"] = <<>>
    /\ sc_stats["scheduled"].errors = 1
    /\ actions = InitialActions
    /\ historique_actions = {}

\* The steps of a cycle that write to the table or run retention.
StoreSteps == {"persist", "commit", "rollback", "cleanup", "cleanup_failed"}

TraceSteps(p) == {ex_trace[p][i] : i \in 1..Len(ex_trace[p])}

\* The cycle tried to download the bulletin and download_pdf returned None.
DownloadFailed(p) ==
    /\ Len(ex_trace[p]) >= 2
    /\ ex_trace[p][1] = "download"
    /\ ex_trace[p][2] \notin Documents

\* The cycle extracted and found none of the four indicators.
ExtractedNothing(p) ==
    /\ "extract" \in TraceSteps(p)
    /\ \A k \in IndicatorKeys : ex_ind[p][k] = "None"

\* C12: when process_daily_pdf has returned after a failed download, or after
\* an extraction that found none of the four indicators, it returned False,
\* the cycle took no persist and no retention step, and the table is what it
\* was when the cycle started.
C12_AbortsLeaveRows ==
    \A p \in ExtractProcs :
        (ex_pc[p] = "returned" /\ (DownloadFailed(p) \/ ExtractedNothing(p))) =>
            /\ ~ex_success[p]
            /\ TraceSteps(p) \cap StoreSteps = {}
            /\ DownloadFailed(p) => "extract" \notin TraceSteps(p)
            /\ indicateurs = ex_start[p]

\* C12 witness: a cycle found the file an earlier broken download had left,
\* extracted nothing from it and returned False; the table still holds its
\* three rows, the one older than the retention cutoff included.
C12_Witness ==
    /\ ex_pc["scheduled"] = "returned"
    /\ ex_files[ex_target["scheduled"]] = "partial"
    /\ ex_trace["scheduled"] = <<"file_exists", "extract">>
    /\ ~ex_success["scheduled"]
    /\ indicateurs = InitialRows
    /\ \E r \in indicateurs : r.date_rapport < cutoff_date(ex_today)

\* The last step the cycle has taken.
LastStep(p) == IF ex_trace[p] = <<>> THEN "none" ELSE ex_trace[p][Len(ex_trace[p])]

\* C13: when cleanup_old_data has run, the table holds exactly the rows it
\* held on entry whose date is not before today minus DATA_RETENTION_DAYS,
\* each of them unchanged, and the value returned is the number of rows
\* removed; when the delete failed, the table is what it was on entry and the
\* value returned is 0.
C13_RetentionCutoff ==
    \A p \in ExtractProcs :
        /\ (ex_pc[p] = "returned" /\ LastStep(p) = "cleanup") =>
               /\ indicateurs = {r \in ex_pre_cleanup[p] :
                                     r.date_rapport >= ex_today - DATA_RETENTION_DAYS}
               /\ ex_deleted[p] =
                      Cardinality({r \in ex_pre_cleanup[p] :
                                       r.date_rapport < ex_today - DATA_RETENTION_DAYS})
        /\ (ex_pc[p] = "returned" /\ LastStep(p) = "cleanup_failed") =>
               /\ indicateurs = ex_pre_cleanup[p]
               /\ ex_deleted[p] = 0

\* C13 witness: retention has removed the one row dated the day before the
\* cutoff and returned 1; the row dated on the cutoff day is still there.
C13_Witness ==
    /\ ex_pc["scheduled"] = "returned"
    /\ LastStep("scheduled") = "cleanup"
    /\ ex_deleted["scheduled"] = 1
    /\ \E r \in ex_pre_cleanup["scheduled"] :
           r.date_rapport = ex_today - DATA_RETENTION_DAYS - 1
    /\ \E r \in indicateurs : r.date_rapport = ex_today - DATA_RETENTION_DAYS
    /\ ~\E r \in indicateurs : r.date_rapport < ex_today - DATA_RETENTION_DAYS

\* C14: when a cycle's download has met an HTTP 404, the value download_pdf
\* returned differs from the value it returns for every other failed
\* download, so that the caller can tell "not yet published" apart.
C14_NotPublishedDistinct ==
    \A p \in ExtractProcs :
        (DownloadFailed(p) /\ ex_trace[p][2] = "404") =>
            \A o \in DownloadOutcomes \ (Documents \cup {"404"}) :
                download_pdf(ex_trace[p][2]) # download_pdf(o)

\* A numeral in the ordinary sense: an optional sign, at least one digit,
\* only digits and at most one decimal point.
NumericText(v) ==
    /\ \E i \in 1..Len(v) : v[i] \in DigitChars
    /\ \A i \in 1..Len(v) : v[i] \in DigitChars \cup {"."} \/ (i = 1 /\ v[i] \in {"-", "+"})
    /\ Cardinality({i \in 1..Len(v) : v[i] = "."}) <= 1

\* The cell text without its spaces and with its commas turned into points.
CleanedText(v) == CommaToPoint(RemoveSpaces(v))

\* C15: once both parsers have been applied to a cell text: the empty text,
\* "-" and "0" give None and 0; "1 234,56" gives 1234.56; and a text that is
\* not a numeral after cleaning gives None and 0.
C15_CellTokens ==
    pa_done = {"parse_float", "parse_int"} =>
        /\ pa_value \in {<<>>, <<"-">>, <<"0">>} => (pa_float = None /\ pa_int = 0)
        /\ pa_value = <<"1", " ", "2", "3", "4", ",", "5", "6">> => pa_float = <<123456, 2>>
        /\ ~NumericText(CleanedText(pa_value)) => (pa_float = None /\ pa_int = 0)

\* The part of C15 that the parsers do meet: the same statement with the
\* non-finite words left out of its last case, and every numeral other than
\* the placeholder "0" giving a value.
C15_FiniteTokens ==
    pa_done = {"parse_float", "parse_int"} =>
        /\ pa_value \in {<<>>, <<"-">>, <<"0">>} => (pa_float = None /\ pa_int = 0)
        /\ pa_value = <<"1", " ", "2", "3", "4", ",", "5", "6">> => pa_float = <<123456, 2>>
        /\ (~NumericText(CleanedText(pa_value)) /\ ~NonFiniteLiteral(CleanedText(pa_value)))
               => (pa_float = None /\ pa_int = 0)
        /\ (NumericText(CleanedText(pa_value)) /\ strip(pa_value) # <<"0">>)
               => pa_float # None

\* A row of the page that has at least 7 cells and a symbol.
Qualifies(row) == row.cells >= 7 /\ row.symbole # ""

\* C16: in every cycle that has fetched and parsed its page, the quotes
\* parse_actions returned are, in page order, one per row of the page with at
\* least 7 cells and a non-empty symbol, each row's quote being what the row
\* alone gives; a page without such a row (no row at all included) gives the
\* empty list; and the cycle has gone on to save or has returned, no
\* exception having left parse_actions.
C16_ParseActionsRows ==
    \A p \in ScrapeProcs :
        sc_pc[p] # "idle" =>
            LET page == sc_page[p]
                data == sc_data[p]
                kept == SelectSeq(page, Qualifies) IN
            /\ Len(data) = Len(kept)
            /\ \A i \in 1..Len(kept) :
                   /\ data[i].symbole = kept[i].symbole
                   /\ data[i] = parse_actions(<<kept[i]>>)[1]
            /\ (\A i \in 1..Len(page) : ~Qualifies(page[i])) => data = <<>>
            /\ sc_pc[p] \in {"save", "commit", "returned"} \/ sc_fault[p]

\* C16 witness: a page whose first row has six cells and whose second row is
\* ABCD's has been parsed: the only quote returned is ABCD's, with volume
\* 12500 and close 1020.5.
C16_Witness ==
    /\ sc_pc["manual"] = "save"
    /\ Len(sc_page["manual"]) = 2
    /\ sc_page["manual"][1].cells = 6
    /\ sc_data["manual"] = <<[symbole |-> "ABCD", volume |-> 12500,
                              cours_cloture |-> <<10205, 1>>]>>

\* The keys of an indicators map that carry a value.
Populated(ind) == {k \in DOMAIN ind : ind[k] # "None"}

\* C17: once a cycle has run extract_indicators on its file, the map has
\* exactly the four keys; a key carries a value exactly when its pattern
\* matches the file's text, and the value is that of the first match; a text
\* with two of the labels gives those two and no other; a text without a
\* label and an unreadable file give four absent values; and the cycle has
\* gone on or returned (nothing was raised).
C17_IndicatorsByLabel ==
    \A p \in ExtractProcs :
        "extract" \in TraceSteps(p) =>
            LET file == ex_files[ex_target[p]]
                ind == ex_ind[p] IN
            /\ DOMAIN ind = IndicatorKeys
            /\ \A k \in IndicatorKeys :
                   /\ k \in Populated(ind) <=> Matches(file, k) # <<>>
                   /\ k \in Populated(ind) => ind[k] = Matches(file, k)[1]
            /\ file = "two_labels" =>
                   Populated(ind) = {"taux_rendement_moyen", "per_moyen"}
            /\ file \in {"no_label", "partial"} => Populated(ind) = {}
            /\ ex_pc[p] \in {"persist", "commit", "cleanup", "returned"}

\* C17 witness: a cycle has extracted from a bulletin with two labels, the
\* first of them matched twice: two keys carry the first value, two are
\* absent, and the cycle is about to persist.
C17_Witness ==
    /\ ex_pc["manual"] = "persist"
    /\ ex_files[ex_target["manual"]] = "two_labels"
    /\ Len(Matches("two_labels", "taux_rendement_moyen")) = 2
    /\ ex_ind["manual"] = [taux_rendement_moyen |-> "1.5", per_moyen |-> "1.5",
                           taux_rentabilite_moyen |-> "None",
                           prime_risque_marche |-> "None"]

\* C18: every symbol parse_actions returned and every symbol stored in the
\* quotes table is in upper case, and no two stored quotes have symbols that
\* differ only in case.
C18_SymbolsUpperCase ==
    /\ \A p \in ScrapeProcs : \A i \in 1..Len(sc_data[p]) :
           sc_data[p][i].symbole = upper(sc_data[p][i].symbole)
    /\ \A r \in actions : r.symbole = upper(r.symbole)
    /\ \A r, s \in actions : upper(r.symbole) = upper(s.symbole) => r = s

\* C19: every quote parse_actions returned and every quote stored has a
\* volume that is zero or more.
C19_VolumeNonNegative ==
    /\ \A p \in ScrapeProcs : \A i \in 1..Len(sc_data[p]) : sc_data[p][i].volume >= 0
    /\ \A r \in actions : r.volume >= 0
    /\ \A h \in historique_actions : h.data_snapshot.volume >= 0

\* C20: at every point of a broadcast the table has the subscribers it had
\* when the broadcast started, each with the same url and the same active
\* flag, and the row of a subscriber whose delivery failed is what it was
\* (its last_triggered included).
C20_SubscribersKept ==
    /\ DOMAIN webhooks = DOMAIN wh_before
    /\ \A w \in DOMAIN wh_before :
           /\ webhooks[w].url = wh_before[w].url
           /\ webhooks[w].is_active = wh_before[w].is_active
           /\ wh_result[w] = "false" => webhooks[w] = wh_before[w]

\* C20 witness: a broadcast has returned with at least one failed and one
\* successful delivery; the three subscribers are still there and active,
\* only the successful one's row differs from what it was.
C20_Witness ==
    /\ wh_pc = "returned"
    /\ wh_stats.failed >= 1
    /\ wh_stats.success >= 1
    /\ DOMAIN webhooks = 1..3
    /\ \A w \in 1..3 : webhooks[w].is_active = 1 /\ webhooks[w].url = w
    /\ \E w \in 1..3 : wh_result[w] = "false" /\ webhooks[w] = wh_before[w]
    /\ \E w \in 1..3 : wh_result[w] = "true" /\ webhooks[w] # wh_before[w]

\* C21: a scrape cycle that has left save_to_database's commit has returned
\* its stats to the caller: no exception has left scrape_and_save, and when
\* the commit failed both tables are what they were when the cycle started.
C21_CommitFailureReported ==
    \A p \in ScrapeProcs :
        sc_pc[p] \in {"returned", "raised"} =>
            /\ sc_pc[p] = "returned"
            /\ sc_fault[p] /\ sc_stats[p].inserted + sc_stats[p].updated > 0
                   /\ historique_actions = sc_before[p].historique
                   => actions = sc_before[p].actions

\* The steps of the cycle from its persist step on.
RECURSIVE FromPersist(_)
FromPersist(t) ==
    IF t = <<>> \/ Head(t) = "persist" THEN t ELSE FromPersist(Tail(t))

\* C22: in every cycle that reached persist, the steps from persist on are,
\* in this order, persist, then commit or rollback, then one retention step
\* (done or failed): no retention step precedes the end of the write, and
\* retention follows a rollback as it follows a commit; once the cycle has
\* returned, retention has run exactly once and the value returned is True
\* exactly when persist committed, whatever retention removed.
C22_RetentionAfterPersist ==
    \A p \in ExtractProcs :
        "persist" \in TraceSteps(p) =>
            LET t == FromPersist(ex_trace[p]) IN
            /\ Len(t) <= 3
            /\ Len(t) >= 2 => t[2] \in {"commit", "rollback"}
            /\ Len(t) = 3 => t[3] \in {"cleanup", "cleanup_failed"}
            /\ ex_pc[p] = "commit" => Len(t) = 1
            /\ ex_pc[p] = "cleanup" => Len(t) = 2
            /\ ex_pc[p] = "returned" =>
                   /\ Len(t) = 3
                   /\ ex_success[p] <=> t[2] = "commit"

\* C22 witness: a cycle whose persist was rolled back has run retention all
\* the same, retention removed a row, and the cycle returned False.
C22_Witness ==
    /\ ex_pc["scheduled"] = "returned"
    /\ FromPersist(ex_trace["scheduled"]) = <<"persist", "rollback", "cleanup">>
    /\ ex_deleted["scheduled"] = 1
    /\ ~ex_success["scheduled"]

\* A step in which caller p starts a cycle.
Starts(p) == ex_trace[p] = <<>> /\ ex_trace'[p] # <<>>

\* C23: a cycle that starts while a file of the bulletin's name is there
\* makes no request, leaves the file as it is and goes on to extract from it;
\* a cycle requests the bulletin only when no such file is there; and a file
\* a download has completed is never written again, so that at most one
\* download succeeds for a date.
C23_NoSecondDownload ==
    [][/\ \A p \in ExtractProcs :
              Starts(p) =>
                  /\ ex_files[ex_target'[p]] # "none" =>
                         /\ ex_trace'[p] = <<"file_exists">>
                         /\ ex_pc'[p] = "extract"
                         /\ ex_files' = ex_files
                  /\ ex_trace'[p][1] = "download" => ex_files[ex_target'[p]] = "none"
       /\ \A d \in TargetDates :
              ex_files[d] \in Documents => ex_files'[d] = ex_files[d]
       /\ \A p \in ExtractProcs :
              (ex_pc[p] = "extract" /\ ex_pc'[p] # "extract") =>
                  ex_ind'[p] = extract_indicators(ex_files[ex_target[p]])]_vars

\* C23 witness: the file a first cycle downloaded is there, and a later
\* cycle for the same date has used it without a request and has extracted
\* its four indicators.
C23_Witness ==
    /\ ex_trace["manual"] = <<"file_exists", "extract">>
    /\ ex_files[ex_target["manual"]] = "four_labels"
    /\ ex_ind["manual"] = extract_indicators("four_labels")

\* C24: when save_to_database has just rolled back a failed commit, it has
\* returned False to process_daily_pdf (the cycle goes on to retention, no
\* exception left the call) and the table holds exactly the rows it held when
\* save_to_database was entered.
C24_FailedUpsertLeavesRows ==
    \A p \in ExtractProcs :
        LastStep(p) = "rollback" =>
            /\ ex_pc[p] = "cleanup"
            /\ ~ex_success[p]
            /\ indicateurs = ex_before[p]

\* C24 witness: the commit of an update of the row of the target date has
\* failed; the row still carries the four indicators it had, not the two
\* the cycle extracted.
C24_Witness ==
    /\ LastStep("scheduled") = "rollback"
    /\ ex_existing["scheduled"] = 3
    /\ ex_ind["scheduled"] = extract_indicators("two_labels")
    /\ \E r \in indicateurs :
           /\ r.id = 3
           /\ r.date_rapport = ex_target["scheduled"]
           /\ r.ind = extract_indicators("four_labels")

\* C25: in a broadcast during which a commit of last_triggered has failed,
\* no exception leaves broadcast_to_webhooks, and when it returns every
\* subscriber of the list has been attempted once and success and failed are
\* the numbers of deliveries that succeeded and that failed.
C25_CommitErrorIsolated ==
    (wh_store_fault /\ wh_list # <<>>) =>
        /\ wh_pc # "raised"
        /\ wh_escaped = "none"
        /\ wh_pc = "returned" =>
               /\ \A i \in 1..Len(wh_list) : wh_calls[wh_list[i]] = 1
               /\ wh_stats.success = Cardinality({w \in SubIds : wh_result[w] = "true"})
               /\ wh_stats.failed = Cardinality({w \in SubIds : wh_result[w] = "false"})

\* A step in which the scheduled scrape task takes the result of its cycle.
ScrapeTaskEnds == sc_pc["scheduled"] # "idle" /\ sc_pc'["scheduled"] = "idle"

ExtractTaskEnds == ex_pc["scheduled"] = "returned" /\ ex_pc'["scheduled"] = "idle"

\* C26 (extract task): when the scheduled extract task takes the result of
\* its cycle, it notifies only if process_daily_pdf returned True and the
\* report of the cycle's date is in the table; when process_daily_pdf
\* returned True it notifies unless the read of the latest report raised; and
\* it does not notify after a cycle whose download, extraction or persist
\* failed.
C26_ExtractTaskNotifies ==
    [][ExtractTaskEnds =>
           /\ ex_notified' = "notified" =>
                  /\ ex_success["scheduled"]
                  /\ "commit" \in TraceSteps("scheduled")
                  /\ \E r \in indicateurs : r.date_rapport = ex_target["scheduled"]
           /\ ex_success["scheduled"] => ex_notified' \in {"notified", "read_raised"}
           /\ (DownloadFailed("scheduled") \/ ExtractedNothing("scheduled")
                   \/ "rollback" \in TraceSteps("scheduled"))
                  => ex_notified' = "no_data"]_vars

SameDateRace ==
    /\ \A p \in ExtractProcs : ex_trace[p] # <<>>
    /\ ex_target["scheduled"] = ex_target["manual"]

\* C27: whatever the interleaving of two cycles, the table never holds two
\* reports for one date; every cycle that has left save_to_database is in
\* retention or has returned (no exception left it); and once a cycle for a
\* date has committed, the table holds exactly one report for that date, the
\* other cycle having updated that row or having been refused its insert.
C27_OneRowPerDate ==
    /\ \A r, s \in indicateurs : r.date_rapport = s.date_rapport => r = s
    /\ \A p \in ExtractProcs :
           /\ ex_pc[p] \in {"idle", "extract", "persist", "commit", "cleanup", "returned"}
           /\ (TraceSteps(p) \cap {"commit", "rollback"} # {})
                  => ex_pc[p] \in {"cleanup", "returned"}
    /\ (SameDateRace /\ \E p \in ExtractProcs : "commit" \in TraceSteps(p)) =>
           Cardinality(RowsFor(indicateurs, ex_target["scheduled"])) = 1

\* C27 witness: both cycles looked the date up before either had written
\* (both found no row), one committed its insert and the other's insert was
\* refused and rolled back: both have returned and the table holds one
\* report for the date.
C27_Witness ==
    /\ SameDateRace
    /\ \A p \in ExtractProcs : ex_pc[p] = "returned" /\ ex_existing[p] = 0
    /\ ex_success["scheduled"] /\ ~ex_success["manual"]
    /\ "rollback" \in TraceSteps("manual")
    /\ Cardinality(RowsFor(indicateurs, ex_target["manual"])) = 1

\* C28: when process_daily_pdf has returned True, the table holds a report
\* for the cycle's target date.
C28_ReportKeptOnSuccess ==
    \A p \in ExtractProcs :
        (ex_pc[p] = "returned" /\ ex_success[p]) =>
            RowsFor(indicateurs, ex_target[p]) # {}

\* C28 holds for the targets inside the retention window: the report of a
\* cycle that returned True for a date not older than today minus
\* DATA_RETENTION_DAYS is in the table, whatever the other cycle does.
C28_RecentReportKept ==
    \A p \in ExtractProcs :
        (ex_pc[p] = "returned" /\ ex_success[p]
             /\ ex_target[p] >= ex_today - DATA_RETENTION_DAYS) =>
            RowsFor(indicateurs, ex_target[p]) # {}

\* C29 as claimed: every file in the downloads directory is a completely
\* downloaded bulletin.
C29_FilesAreComplete ==
    \A d \in TargetDates : ex_files[d] \in Documents \cup {"none"}

\* C29 as the code has it: a download that breaks mid-stream leaves a
\* partial file under the bulletin's name; a cycle that starts while that
\* file is there makes no request and leaves the file as it is; and the
\* extraction from it finds nothing, so the cycle returns False without
\* reaching persist.
C29_PartialFileIsUsed ==
    [][\A p \in ExtractProcs :
           /\ (Starts(p) /\ ex_trace'[p] = <<"download", "broken_stream">>) =>
                  /\ ex_files'[ex_target'[p]] = "partial"
                  /\ ex_pc'[p] = "returned"
                  /\ ~ex_success'[p]
           /\ (Starts(p) /\ ex_files[ex_target'[p]] = "partial") =>
                  /\ ex_trace'[p] = <<"file_exists">>
                  /\ ex_files' = ex_files
           /\ (ex_pc[p] = "extract" /\ ex_pc'[p] # "extract"
                   /\ ex_files[ex_target[p]] = "partial") =>
                  /\ ex_pc'[p] = "returned"
                  /\ ~ex_success'[p]
                  /\ ex_ind'[p] = NoIndicators
                  /\ ex_files' = ex_files]_vars

\* C29 witness: the manual cycle found the partial file a broken download
\* had left for its date, made no request, extracted nothing and returned
\* False.
C29_Witness ==
    /\ ex_pc["manual"] = "returned"
    /\ ex_trace["manual"] = <<"file_exists", "extract">>
    /\ ex_files[ex_target["manual"]] = "partial"
    /\ ex_ind["manual"] = NoIndicators
    /\ ~ex_success["manual"]

\* The table actions has at most one row per symbol.
OneQuotePerSymbol(table) ==
    \A r \in table, s \in table : r.symbole = s.symbole => r = s

\* The commit of cycle p would give a symbol a second row: it inserts a
\* symbol the table holds, or the same symbol twice.
SecondQuote(p) ==
    \E k \in 1..Len(sc_pending[p]) :
        /\ sc_pending[p][k].op = "insert"
        /\ \/ \E r \in actions : r.symbole = sc_pending[p][k].data.symbole
           \/ \E j \in 1..Len(sc_pending[p]) :
                  /\ j # k
                  /\ sc_pending[p][j].op = "insert"
                  /\ sc_pending[p][j].data.symbole = sc_pending[p][k].data.symbole

\* C30: in every step of every interleaving of two scrape cycles, the table
\* actions has at most one row per symbol before and after the step, every
\* row of before is still there with its id and its symbol, and a commit
\* that would give a symbol a second row raises and changes neither actions
\* nor historique_actions.
C30_OneQuotePerSymbol ==
    [][/\ OneQuotePerSymbol(actions)
       /\ OneQuotePerSymbol(actions')
       /\ \A r \in actions : \E s \in actions' : s.id = r.id /\ s.symbole = r.symbole
       /\ \A p \in ScrapeProcs :
              (sc_pc[p] = "commit" /\ sc_pc'[p] # "commit" /\ SecondQuote(p)) =>
                  /\ sc_pc'[p] = "raised"
                  /\ actions' = actions
                  /\ historique_actions' = historique_actions]_vars

\* C30 witness: both cycles saw EFGH as absent and added it; the scheduled
\* one committed, the manual one raised at its commit and the table holds
\* one row for EFGH.
C30_Witness ==
    /\ sc_pc["scheduled"] = "returned"
    /\ sc_pc["manual"] = "raised"
    /\ sc_stats["scheduled"].inserted = 1
    /\ sc_stats["manual"].inserted = 1
    /\ Cardinality({r \in actions : r.symbole = "EFGH"}) = 1
    /\ \A r \in sc_before["manual"].actions : r.symbole # "EFGH"

====
